---------------------------- MODULE Spec2Model ----------------------------
(***************************************************************************)
(* A model of the sd-agent check core (src/checks/__init__.py) and of the  *)
(* collection cycle (src/checks/collector.py):                             *)
(*   - the legacy sample store of class Check (declare / save / read),     *)
(*   - the run loop and the drained buffers of class AgentCheck,           *)
(*   - AgentCheck.historate and its per-context (value, timestamp),        *)
(*   - Collector.run(), Collector.stop() and AgentPayload.emit(),          *)
(*   - the data / metadata split of class AgentPayload,                    *)
(*   - the metric verbs of AgentCheck over its aggregator,                 *)
(*   - the metadata timers of the Collector,                               *)
(*   - get_histogram_percentiles and load_check_directory (src/config.py). *)
(* Fourteen specifications share the module:                               *)
(*   Spec        the sample store driven by declare/save/read operations,  *)
(*   SpecRate    the same store, one context, int and float samples,       *)
(*   SpecMetrics get_metrics over several contexts and metrics,            *)
(*   SpecRace    get_metrics in one thread, save_sample in another,        *)
(*   SpecTags    save_sample with tag lists that repeat a tag,             *)
(*   SpecRun     AgentCheck.run() over two instances,                      *)
(*   SpecDrain   the submission verbs and the getters that drain them,     *)
(*   SpecCollect collector cycles with a concurrent stop(),                *)
(*   SpecPayload item assignments and deletions on an AgentPayload,        *)
(*   SpecHistorate historate calls as the clock advances,                  *)
(*   SpecAggregate metric submissions and flushes of the aggregator,       *)
(*   SpecPercentiles get_histogram_percentiles over short strings,         *)
(*   SpecTimers  collector cycles and their metadata timers,               *)
(*   SpecLoad    load_check_directory over conf.d and the agent config.    *)
(***************************************************************************)
EXTENDS Integers, Sequences, FiniteSets, TLC

VARIABLES
    \* ---- class Check (legacy sample store) ----
    sample_store,   \* self._sample_store: metric -> (key -> samples)
    counters,       \* self._counters: the set of its keys
    rd,             \* the last read (get_sample_with_timestamp / get_sample) and its outcome
    sv,             \* the last save (save_sample / save_gauge) and its outcome
    metricsOut,     \* what the last get_metrics() returned
    declared,       \* history: metric -> the kind its last declaration gave it
    hist,           \* history: metric -> (key -> every sample saved since the metric was (re)declared)
    nOps,           \* number of samples saved so far (bounded)
    scan,           \* a get_metrics() call in progress in another thread, and its history
    \* ---- class AgentCheck ----
    instances,              \* self.instances: per instance, its own min_collection_interval if any
    min_collection_interval,\* self.min_collection_interval (from init_config)
    clock,                  \* time.time()
    last_collection_time,   \* self.last_collection_time (defaultdict(int))
    warnings,               \* self.warnings
    instance_metadata,      \* self._instance_metadata
    svc_metadata,           \* self.svc_metadata
    service_checks,         \* self.service_checks
    events,                 \* self.events
    pc,                     \* position of run(): "idle", "loop" or "done" (returned)
    idx,                    \* the loop variable i of run()
    instance_statuses,      \* the local list run() builds and returns
    iters,                  \* history: one record per loop iteration of the current run()
    got,                    \* the last drain call and what it returned
    pending,                \* history: per buffer, what was submitted since its last drain,
                            \* and the arguments of the last service_check call
    nRuns,                  \* number of run() calls started so far (bounded)
    nSub,                   \* number of submissions made outside check() so far (bounded)
    \* class Collector and AgentPayload.emit (src/checks/collector.py)
    continue_running,       \* self.continue_running
    initialized_checks_d,   \* self.initialized_checks_d: the checks.d checks, in list order
    init_failed_checks_d,   \* self.init_failed_checks_d: names of the checks that failed to load
    agent_metrics,          \* whether self._agent_metrics is set
    emitters,               \* self.emitters, in list order
    cpc,                    \* where Collector.run() is
    ci,                     \* position of the loop over initialized_checks_d
    current_check_metadata, \* the local of run(): "unbound" or the check whose metadata it holds
    check_statuses,         \* the local list of CheckStatus records
    payload_service_checks, \* the local service_checks, the payload's list of service checks
    flagArg,                \* the continue_running argument emit() was called with
    ek,                     \* position of the loop over the emitters
    started,                \* history: the checks whose run() was called this cycle, in order
    invoked,                \* history: the emitters called this cycle, in order
    stopPoint,              \* history: where the cycle was when stop() was first called
    outcome,                \* how the last cycle ended
    nCycles,                \* number of cycles started so far (bounded)
    push_times,             \* self.push_times: data name -> its timer start and interval
    sent,                   \* history: data name -> the last _should_send_additional_data
                            \* call for it (how many so far, what it returned, when)
    \* ---- config.py ----
    loader,                 \* load_check_directory: its position and its locals
    pct,                    \* the last get_histogram_percentiles call and its result
    \* ---- class AgentPayload ----
    payload,                \* an AgentPayload: data_payload, meta_payload, and as history
                            \* the last value assigned to each key it holds
    invoked_at,             \* history: instance -> the clock reading of its last check() call
    \* ---- AgentCheck.historate ----
    historate_dict,         \* AgentCheck.historate_dict: context -> (value, timestamp)
    hcall,                  \* history: the last historate call and what it did
    \* ---- AgentCheck.aggregator ----
    aggregator,             \* context -> its state in the aggregator
    flushOut                \* history: what the last flush returned, and the submissions since

storeVars == <<sample_store, counters, rd, sv, metricsOut, declared, hist, nOps, scan>>
runVars == <<instances, min_collection_interval, clock, last_collection_time, warnings,
             instance_metadata, svc_metadata, service_checks, events, pc, idx,
             instance_statuses, iters, got, pending, nRuns, nSub, historate_dict, hcall,
             aggregator, flushOut, invoked_at>>
historateVars == <<historate_dict, hcall>>
aggVars == <<aggregator, flushOut>>
collVars == <<continue_running, initialized_checks_d, init_failed_checks_d, agent_metrics,
              emitters, cpc, ci, current_check_metadata, check_statuses,
              payload_service_checks, flagArg, ek, started, invoked, stopPoint, outcome,
              nCycles, payload, pct, push_times, sent, loader>>
configVars == <<pct, loader>>
timerVars == <<push_times, sent>>
vars == <<storeVars, runVars, collVars>>

----------------------------------------------------------------------------
\* Bounds of the model.
MaxOps == 3          \* samples saved per behaviour of Spec
MaxRateOps == 2      \* samples saved per behaviour of SpecRate
MaxMetricsOps == 4   \* samples saved per behaviour of SpecMetrics
MaxRaceOps == 3      \* samples saved per behaviour of SpecRace
MaxTagOps == 3       \* samples saved per behaviour of SpecTags
MaxPayloadOps == 4   \* item assignments and deletions per behaviour of SpecPayload
MaxAggOps == 4       \* submissions and flushes per behaviour of SpecAggregate
MaxPctLen == 5       \* characters of an entry of the percentile string in SpecPercentiles
MaxHistorate == 2    \* historate calls per behaviour of SpecHistorate
MaxT == 2            \* timestamps range over 0..MaxT
MaxVal == 2          \* sample values range over 0..MaxVal
MaxInterval == 2     \* min_collection_interval ranges over 0..MaxInterval
MaxClock == 2        \* ticks of time.time() per behaviour
MaxRuns == 2         \* run() calls per behaviour
MaxSub == 2          \* submissions made outside check() per behaviour of SpecDrain
MaxCycles == 2       \* Collector.run() calls per behaviour of SpecCollect
MaxChecks == 2       \* checks.d checks of the collector
MaxEmitters == 2     \* emitters of the collector
MaxLeftover == 1     \* warnings / metadata left behind outside check() per behaviour of SpecRun

----------------------------------------------------------------------------
\* Python numbers: an int or a float, held as a reduced fraction num/den.
Int_(n) == [fl |-> FALSE, num |-> n, den |-> 1]
Float_(n) == [fl |-> TRUE, num |-> n, den |-> 1]

Abs(n) == IF n < 0 THEN -n ELSE n

RECURSIVE Gcd(_, _)
Gcd(a, b) == IF b = 0 THEN a ELSE Gcd(b, a % b)

\* the fraction n/d (d # 0) in lowest terms with a positive denominator
Frac(n, d, isFloat) ==
    LET g == Gcd(Abs(n), Abs(d))
        s == IF d < 0 THEN -1 ELSE 1
    IN [fl |-> isFloat, num |-> s * (n \div g), den |-> s * (d \div g)]

\* Python's a - b
PySub(a, b) == Frac(a.num * b.den - b.num * a.den, a.den * b.den, a.fl \/ b.fl)

\* Python 2 floor of n/d for ints (d # 0): rounds towards minus infinity
FloorDiv(n, d) ==
    LET q == Abs(n) \div Abs(d)
        exact == (Abs(n) % Abs(d)) = 0
    IN IF (n >= 0) = (d > 0) THEN q
       ELSE IF exact THEN -q ELSE -q - 1

\* Python 2's a / b (b # 0, no "from __future__ import division" in the module):
\* floor division when both operands are ints, true division otherwise
PyDiv(a, b) ==
    IF ~a.fl /\ ~b.fl
    THEN Int_(FloorDiv(a.num, b.num))
    ELSE Frac(a.num * b.den, a.den * b.num, TRUE)

IsZero(a) == a.num = 0
IsNeg(a) == a.num < 0
\* int(x): truncation towards zero
PyInt(a) == IF a.num >= 0 THEN a.num \div a.den ELSE -((-a.num) \div a.den)

----------------------------------------------------------------------------
\* Optional Python values: None is the string "None".
None == "None"

\* Tag lists. TagNames lists the tag strings in their sort order.
TagNames == <<"a", "b", "env:x", "env:y">>
TagRank(t) == CHOOSE r \in 1..Len(TagNames) : TagNames[r] = t

\* insert tag t into the sorted sequence s
RECURSIVE Insert(_, _)
Insert(t, s) ==
    IF s = <<>> THEN <<t>>
    ELSE IF TagRank(t) <= TagRank(Head(s)) THEN <<t>> \o s
    ELSE <<Head(s)>> \o Insert(t, Tail(s))

RECURSIVE InsertionSort(_)
InsertionSort(s) == IF s = <<>> THEN <<>> ELSE Insert(Head(s), InsertionSort(Tail(s)))

\* faulty variant of sorted: leaves the tags in the submitted order
SortedNoSort(s) == s

\* sorted(tags) / tags.sort()
sorted(s) == InsertionSort(s)

\* A tags argument: None, a list, a tuple, or a value of another type (a str).
NoTags == [kind |-> "none", seq |-> <<>>]
ListTags(s) == [kind |-> "list", seq |-> s]
TupleTags(s) == [kind |-> "tuple", seq |-> s]
StrTags == [kind |-> "str", seq |-> <<>>]

\* The tags component of a context key: None or a tuple of tags.
KeyNone == [none |-> TRUE, seq |-> <<>>]
KeyTuple(s) == [none |-> FALSE, seq |-> s]

\* key = (tags, device_name)
Key(tagsKey, device_name) == [tags |-> tagsKey, dev |-> device_name]

\* a stored sample (timestamp, value, hostname, device_name)
Sample(ts, val, hostname, device_name) ==
    [ts |-> ts, val |-> val, host |-> hostname, dev |-> device_name]
NoSample == Sample(Int_(0), Int_(0), None, None)

\* dict helpers
EmptyDict == [k \in {} |-> <<>>]
Put(d, k, v) == (k :> v) @@ d

\* A raw value handed to save_sample: a number, or something that is no number.
Number(n) == [kind |-> "number", num |-> n]
Garbage == [kind |-> "garbage", num |-> Int_(0)]

\* util.cast_metric_val: numbers pass unchanged, anything uncastable raises ValueError
cast_metric_val(v) ==
    IF v.kind = "number" THEN [ok |-> TRUE, val |-> v.num] ELSE [ok |-> FALSE, val |-> v.num]

----------------------------------------------------------------------------
\* class Check

is_counter(cnts, metric) == metric \in cnts
is_metric(store, metric) == metric \in DOMAIN store
is_gauge(store, cnts, metric) == is_metric(store, metric) /\ ~is_counter(cnts, metric)

\* Check.save_sample's key computation: tags sorted into a tuple
SaveKey(tags, device_name) ==
    Key(IF tags.kind = "none" THEN KeyNone ELSE KeyTuple(sorted(tags.seq)), device_name)

\* the counter eviction rule: the last retained sample plus the new one
CounterAppend(old, s) ==
    (IF Len(old) = 0 THEN <<>> ELSE <<old[Len(old)]>>) \o <<s>>

\* the gauge rule: the context holds the new sample only
GaugeStore(ctxs, key, s) == Put(ctxs, key, <<s>>)

\* faulty variant of save_sample: the value is cast before the metric is looked up,
\* so a bad value for an undeclared metric fails with NaN
SaveSampleCastFirst(store, cnts, metric, value, timestamp, now, tags, hostname, device_name) ==
    LET ts == IF timestamp.given THEN timestamp.t ELSE now
        cast == cast_metric_val(value)
        key == SaveKey(tags, device_name)
        s == Sample(ts, cast.val, hostname, device_name)
        fail(e) == [exc |-> e, key |-> key, sample |-> s, store |-> store]
    IN IF ~cast.ok THEN fail("NaN")
       ELSE IF ~is_metric(store, metric) THEN fail("CheckException")
       ELSE IF tags.kind = "str" THEN fail("CheckException")
       ELSE IF is_gauge(store, cnts, metric)
            THEN [exc |-> "", key |-> key, sample |-> s,
                  store |-> Put(store, metric, GaugeStore(store[metric], key, s))]
       ELSE IF is_counter(cnts, metric)
            THEN [exc |-> "", key |-> key, sample |-> s,
                  store |-> Put(store, metric,
                      Put(store[metric], key,
                          IF key \in DOMAIN store[metric]
                          THEN CounterAppend(store[metric][key], s)
                          ELSE <<s>>))]
       ELSE fail("CheckException")

\* Check.save_sample as a function of the store: the exception raised ("" for none),
\* the key and the sample it stored, and the store afterwards.
save_sample(store, cnts, metric, value, timestamp, now, tags, hostname, device_name) ==
    LET ts == IF timestamp.given THEN timestamp.t ELSE now
        cast == cast_metric_val(value)
        key == SaveKey(tags, device_name)
        s == Sample(ts, cast.val, hostname, device_name)
        fail(e) == [exc |-> e, key |-> key, sample |-> s, store |-> store]
    IN IF ~is_metric(store, metric) THEN fail("CheckException")
       ELSE IF ~cast.ok THEN fail("NaN")
       ELSE IF tags.kind = "str" THEN fail("CheckException")
       ELSE IF is_gauge(store, cnts, metric)
            THEN [exc |-> "", key |-> key, sample |-> s,
                  store |-> Put(store, metric, GaugeStore(store[metric], key, s))]
       ELSE IF is_counter(cnts, metric)
            THEN [exc |-> "", key |-> key, sample |-> s,
                  store |-> Put(store, metric,
                      Put(store[metric], key,
                          IF key \in DOMAIN store[metric]
                          THEN CounterAppend(store[metric][key], s)
                          ELSE <<s>>))]
       ELSE fail("CheckException")

\* faulty variant of _rate: tests the value delta before the interval
RateDeltaFirst(sample1, sample2) ==
    LET interval == PySub(sample2.ts, sample1.ts)
        delta == PySub(sample2.val, sample1.val)
    IN IF IsNeg(delta) THEN [exc |-> "UnknownValue", res |-> NoSample]
       ELSE IF IsZero(interval) THEN [exc |-> "Infinity", res |-> NoSample]
       ELSE [exc |-> "", res |-> Sample(sample2.ts, PyDiv(delta, interval), sample2.host, sample2.dev)]

\* faulty variant of _rate: a decreasing value yields a negative rate instead of UnknownValue
RateNoResetCheck(sample1, sample2) ==
    LET interval == PySub(sample2.ts, sample1.ts)
        delta == PySub(sample2.val, sample1.val)
    IN IF IsZero(interval) THEN [exc |-> "Infinity", res |-> NoSample]
       ELSE [exc |-> "", res |-> Sample(sample2.ts, PyDiv(delta, interval), sample2.host, sample2.dev)]

\* Check._rate
Rate(sample1, sample2) ==
    LET interval == PySub(sample2.ts, sample1.ts)
        delta == PySub(sample2.val, sample1.val)
    IN IF IsZero(interval) THEN [exc |-> "Infinity", res |-> NoSample]
       ELSE IF IsNeg(delta) THEN [exc |-> "UnknownValue", res |-> NoSample]
       ELSE [exc |-> "", res |-> Sample(sample2.ts, PyDiv(delta, interval), sample2.host, sample2.dev)]

\* Check.get_sample_with_timestamp's key computation: only a list is sorted
ReadKey(tags, device_name) ==
    Key(IF tags.kind = "none" THEN KeyNone
        ELSE IF tags.kind = "list" THEN KeyTuple(sorted(tags.seq))
        ELSE KeyTuple(tags.seq), device_name)

\* faulty variant of the expiry: the read discards nothing
ExpireNothing(samples) == samples

\* del self._sample_store[metric][key][:-1]
Expire(samples) == <<samples[Len(samples)]>>

\* Check.get_sample_with_timestamp as a function of the store: the exception raised
\* ("" for none), the sample returned and the store afterwards. A key the metric's
\* dict does not hold raises KeyError at the first self._sample_store[metric][key].
get_sample_with_timestamp(store, cnts, metric, key, expire) ==
    LET fail(e) == [exc |-> e, res |-> NoSample, store |-> store]
    IN IF ~is_metric(store, metric) THEN fail("UnknownValue")
       ELSE IF key \notin DOMAIN store[metric] THEN fail("KeyError")
       ELSE LET samples == store[metric][key]
                n == Len(samples)
            IN IF is_counter(cnts, metric) /\ n < 2 THEN fail("UnknownValue")
               ELSE IF is_counter(cnts, metric) /\ n >= 2
                    THEN LET r == Rate(samples[n - 1], samples[n])
                         IN IF r.exc # "" THEN fail(r.exc)
                            ELSE [exc |-> "", res |-> r.res,
                                  store |-> IF expire
                                            THEN Put(store, metric,
                                                     Put(store[metric], key, Expire(samples)))
                                            ELSE store]
               ELSE IF is_gauge(store, cnts, metric) /\ n >= 1
                    THEN [exc |-> "", res |-> samples[n], store |-> store]
               ELSE fail("UnknownValue")

\* one key of Check.get_metrics' inner loop: the read, and the tuple appended to
\* metrics when the read succeeds. attributes holds tags / host_name / device_name
\* only when they are non-empty.
MetricTuple(metric, key, r) ==
    [name |-> metric, ts |-> PyInt(r.res.ts), val |-> r.res.val,
     attributes |->
        [a \in (IF ~key.tags.none /\ key.tags.seq # <<>> THEN {"tags"} ELSE {})
               \cup (IF r.res.host # None THEN {"host_name"} ELSE {})
               \cup (IF r.res.dev # None THEN {"device_name"} ELSE {}) |->
            IF a = "tags" THEN key.tags.seq
            ELSE IF a = "host_name" THEN <<r.res.host>>
            ELSE <<r.res.dev>>]]

\* the inner loop of Check.get_metrics over one metric's keys, visited in `order`:
\* UnknownValue skips the key, any other exception ends this metric's loop
\* (the outer "except Exception: pass").
RECURSIVE ScanKeys(_, _, _, _, _, _)
ScanKeys(store, cnts, metric, order, expire, out) ==
    IF order = <<>> THEN [store |-> store, out |-> out]
    ELSE LET key == Head(order)
             r == get_sample_with_timestamp(store, cnts, metric, key, expire)
         IN IF r.exc = "" THEN
                ScanKeys(r.store, cnts, metric, Tail(order), expire,
                         Append(out, MetricTuple(metric, key, r)))
            ELSE IF r.exc = "UnknownValue" THEN
                ScanKeys(store, cnts, metric, Tail(order), expire, out)
            ELSE [store |-> store, out |-> out]

\* the orders in which a dict's keys may be visited
Orders(S) ==
    {o \in [1..Cardinality(S) -> S] : \A i, j \in 1..Cardinality(S) : i # j => o[i] # o[j]}

\* the outer loop of Check.get_metrics over the metrics not yet visited: every result
\* that some visiting order of the metrics and of each metric's keys produces
RECURSIVE ScanMetrics(_, _, _, _, _)
ScanMetrics(store, cnts, todo, expire, out) ==
    IF todo = {} THEN {[store |-> store, out |-> out]}
    ELSE UNION {
            UNION {ScanMetrics(r.store, cnts, todo \ {m}, expire, r.out) :
                     r \in {ScanKeys(store, cnts, m, o, expire, out) :
                              o \in Orders(DOMAIN store[m])}} :
            m \in todo}

----------------------------------------------------------------------------
\* Operations on a Check object.

NoRead == [op |-> "none", metric |-> "", tags |-> NoTags, key |-> Key(KeyNone, None),
           expire |-> FALSE, counter |-> FALSE, pre |-> <<>>, exc |-> "",
           res |-> NoSample]
NoSave == [op |-> "none", metric |-> "", exc |-> ""]
NoMetrics == [called |-> FALSE, expire |-> FALSE, out |-> <<>>]
NoScan == [active |-> FALSE, done |-> FALSE, expire |-> FALSE, todo |-> {}, m |-> "",
           keys |-> {}, size |-> 0, out |-> <<>>, pre |-> <<>>, saves |-> <<>>]

\* history kept beside the store: every successful save of a context, in order
HistAppend(h, metric, key, s, tags) ==
    Put(h, metric,
        Put(h[metric], key,
            (IF key \in DOMAIN h[metric] THEN h[metric][key] ELSE <<>>)
                \o <<[s |-> s, tagsIn |-> tags]>>))

\* Check.counter(metric)
Counter(metric) ==
    /\ counters' = counters \cup {metric}
    /\ sample_store' = Put(sample_store, metric, EmptyDict)
    /\ declared' = Put(declared, metric, "counter")
    /\ hist' = Put(hist, metric, EmptyDict)
    /\ rd' = NoRead /\ sv' = NoSave /\ metricsOut' = NoMetrics
    /\ UNCHANGED <<nOps, runVars, collVars, scan>>

\* Check.gauge(metric)
Gauge(metric) ==
    /\ sample_store' = Put(sample_store, metric, EmptyDict)
    /\ declared' = Put(declared, metric, "gauge")
    /\ hist' = Put(hist, metric, EmptyDict)
    /\ rd' = NoRead /\ sv' = NoSave /\ metricsOut' = NoMetrics
    /\ UNCHANGED <<counters, nOps, runVars, collVars, scan>>

\* Check.save_sample(metric, value, timestamp, tags, hostname, device_name);
\* now is what time.time() returns when no timestamp is given
SaveSample(metric, value, timestamp, now, tags, hostname, device_name) ==
    /\ LET r == save_sample(sample_store, counters, metric, value, timestamp, now,
                            tags, hostname, device_name)
       IN /\ sample_store' = r.store
          /\ hist' = IF r.exc = "" THEN HistAppend(hist, metric, r.key, r.sample, tags)
                     ELSE hist
          /\ sv' = [op |-> "save_sample", metric |-> metric, exc |-> r.exc]
          /\ nOps' = IF r.exc = "" THEN nOps + 1 ELSE nOps
          /\ scan' = IF scan.active /\ r.exc = ""
                     THEN [scan EXCEPT !.saves = Append(@, <<metric, value, timestamp, now,
                                                            tags, hostname, device_name>>)]
                     ELSE scan
    /\ rd' = NoRead /\ metricsOut' = NoMetrics
    /\ UNCHANGED <<counters, declared, runVars, collVars>>

\* Check.save_gauge(...): declares the metric a gauge unless it is one, then saves
SaveGauge(metric, value, timestamp, now, tags, hostname, device_name) ==
    /\ LET declare == ~is_gauge(sample_store, counters, metric)
           store1 == IF declare THEN Put(sample_store, metric, EmptyDict) ELSE sample_store
           hist1 == IF declare THEN Put(hist, metric, EmptyDict) ELSE hist
           r == save_sample(store1, counters, metric, value, timestamp, now,
                            tags, hostname, device_name)
       IN /\ sample_store' = r.store
          /\ declared' = IF declare THEN Put(declared, metric, "gauge") ELSE declared
          /\ hist' = IF r.exc = "" THEN HistAppend(hist1, metric, r.key, r.sample, tags)
                     ELSE hist1
          /\ sv' = [op |-> "save_gauge", metric |-> metric, exc |-> r.exc]
          /\ nOps' = IF r.exc = "" THEN nOps + 1 ELSE nOps
    /\ rd' = NoRead /\ metricsOut' = NoMetrics
    /\ UNCHANGED <<counters, runVars, collVars, scan>>

\* the record of a read: its arguments, the context as it was, and the outcome
ReadRecord(op, metric, tags, device_name, expire) ==
    LET key == ReadKey(tags, device_name)
        r == get_sample_with_timestamp(sample_store, counters, metric, key, expire)
    IN [op |-> op, metric |-> metric, tags |-> tags, key |-> key, expire |-> expire,
        counter |-> is_counter(counters, metric),
        pre |-> IF is_metric(sample_store, metric) /\ key \in DOMAIN sample_store[metric]
                THEN sample_store[metric][key] ELSE <<>>,
        exc |-> r.exc, res |-> r.res]

\* Check.get_sample_with_timestamp(metric, tags, device_name, expire)
GetSampleWithTimestamp(metric, tags, device_name, expire) ==
    /\ rd' = ReadRecord("get_sample_with_timestamp", metric, tags, device_name, expire)
    /\ sample_store' = get_sample_with_timestamp(sample_store, counters, metric,
                                                 ReadKey(tags, device_name), expire).store
    /\ sv' = NoSave /\ metricsOut' = NoMetrics
    /\ UNCHANGED <<counters, declared, hist, nOps, runVars, collVars, scan>>

\* Check.get_sample(metric, tags, device_name, expire): the value x[1] of the read,
\* held in rd.res.val
GetSample(metric, tags, device_name, expire) ==
    /\ rd' = ReadRecord("get_sample", metric, tags, device_name, expire)
    /\ sample_store' = get_sample_with_timestamp(sample_store, counters, metric,
                                                 ReadKey(tags, device_name), expire).store
    /\ sv' = NoSave /\ metricsOut' = NoMetrics
    /\ UNCHANGED <<counters, declared, hist, nOps, runVars, collVars, scan>>

\* Check.get_metrics(expire); the dicts are visited in some order
GetMetrics(expire) ==
    /\ \E r \in ScanMetrics(sample_store, counters, DOMAIN sample_store, expire, <<>>) :
          /\ sample_store' = r.store
          /\ metricsOut' = [called |-> TRUE, expire |-> expire, out |-> r.out]
    /\ rd' = NoRead /\ sv' = NoSave
    /\ UNCHANGED <<counters, declared, hist, nOps, runVars, collVars, scan>>

----------------------------------------------------------------------------
\* Check.get_metrics(expire) running in one thread while another thread saves samples:
\* the store has no lock, so the saves land between the steps of the two loops.

\* get_metrics is called: metrics = [] and the iterator over self._sample_store
ScanBegin(expire) ==
    /\ ~scan.active
    /\ scan' = [active |-> TRUE, done |-> FALSE, expire |-> expire,
                todo |-> DOMAIN sample_store, m |-> "", keys |-> {}, size |-> 0,
                out |-> <<>>, pre |-> sample_store, saves |-> <<>>]
    /\ rd' = NoRead /\ sv' = NoSave /\ metricsOut' = NoMetrics
    /\ UNCHANGED <<sample_store, counters, declared, hist, nOps, runVars, collVars>>

\* "for m in self._sample_store": the next metric, and the iterator over its dict,
\* which remembers the dict's size
ScanMetric ==
    /\ scan.active /\ scan.m = "" /\ scan.todo # {}
    /\ \E m \in scan.todo :
          scan' = [scan EXCEPT !.m = m, !.todo = @ \ {m},
                               !.keys = DOMAIN sample_store[m],
                               !.size = Cardinality(DOMAIN sample_store[m])]
    /\ rd' = NoRead /\ sv' = NoSave
    /\ UNCHANGED <<sample_store, counters, metricsOut, declared, hist, nOps, runVars, collVars>>

\* one turn of "for key in self._sample_store[m]": the iterator raises RuntimeError
\* when the dict's size has changed since the loop began, and the "except Exception:
\* pass" around the loop ends this metric; else the key is read as in ScanKeys
ScanKey ==
    /\ scan.active /\ scan.m # ""
    /\ IF Cardinality(DOMAIN sample_store[scan.m]) # scan.size \/ scan.keys = {}
       THEN /\ scan' = [scan EXCEPT !.m = "", !.keys = {}]
            /\ UNCHANGED sample_store
       ELSE \E key \in scan.keys :
              LET r == get_sample_with_timestamp(sample_store, counters, scan.m, key,
                                                 scan.expire)
              IN IF r.exc = "" THEN
                     /\ sample_store' = r.store
                     /\ scan' = [scan EXCEPT !.keys = @ \ {key},
                                     !.out = Append(@, MetricTuple(scan.m, key, r))]
                 ELSE IF r.exc = "UnknownValue" THEN
                     /\ scan' = [scan EXCEPT !.keys = @ \ {key}]
                     /\ UNCHANGED sample_store
                 ELSE
                     /\ scan' = [scan EXCEPT !.m = "", !.keys = {}]
                     /\ UNCHANGED sample_store
    /\ rd' = NoRead /\ sv' = NoSave
    /\ UNCHANGED <<counters, metricsOut, declared, hist, nOps, runVars, collVars>>

\* "return metrics"
ScanEnd ==
    /\ scan.active /\ scan.m = "" /\ scan.todo = {}
    /\ scan' = [scan EXCEPT !.active = FALSE, !.done = TRUE]
    /\ metricsOut' = [called |-> TRUE, expire |-> scan.expire, out |-> scan.out]
    /\ rd' = NoRead /\ sv' = NoSave
    /\ UNCHANGED <<sample_store, counters, declared, hist, nOps, runVars, collVars>>

----------------------------------------------------------------------------
\* class AgentCheck

DEFAULT_MIN_COLLECTION_INTERVAL == 0

\* self.hostname
AgentHostname == "agent-host"

\* check_status.InstanceStatus(instance_id, status, warnings=, error=, tb=)
InstanceStatus(instance_id, status, warns, error, tb) ==
    [instance_id |-> instance_id, status |-> status, warnings |-> warns,
     error |-> error, tb |-> tb]

\* instance.get('min_collection_interval', self.min_collection_interval)
InstanceInterval(instance, check_interval) ==
    IF instance.has_mci THEN instance.mci ELSE check_interval

\* faulty variant: an instance that ran exactly one interval ago is skipped too
ThrottledInclusive(now, last, interval) == now - last <= interval

\* now - self.last_collection_time[i] < min_collection_interval
Throttled(now, last, interval) == now - last < interval

\* dict((k, v) for (k, v) in pairs): the last value given for a key wins
Dict(pairs) ==
    [k \in {pairs[j][1] : j \in 1..Len(pairs)} |->
        pairs[CHOOSE j \in 1..Len(pairs) :
                /\ pairs[j][1] = k
                /\ \A l \in (j + 1)..Len(pairs) : pairs[l][1] # k][2]]

\* AgentCheck._roll_up_instance_metadata: the dict appended to svc_metadata
RolledUp(meta) == Dict(meta)

\* faulty variant: an instance that returned with warnings pending is reported OK
StatusWarningAsOk(i, raised, pendingWarnings) ==
    IF raised THEN <<InstanceStatus(i, "ERROR", <<>>, "error", "traceback")>>
    ELSE <<InstanceStatus(i, "OK", <<>>, None, None)>>

\* the status records run() appends for an instance that was not skipped: ERROR with
\* str(e) and the traceback when check() raised, WARNING with the drained warnings
\* when has_warnings(), OK otherwise
Status(i, raised, pendingWarnings) ==
    IF raised THEN <<InstanceStatus(i, "ERROR", <<>>, "error", "traceback")>>
    ELSE IF Len(pendingWarnings) > 0
         THEN <<InstanceStatus(i, "WARNING", pendingWarnings, None, None)>>
    ELSE <<InstanceStatus(i, "OK", <<>>, None, None)>>

\* faulty variant: an exception in check() ends the loop over the instances
NextInstanceAbortOnError(i, raised, n) == IF raised THEN n ELSE i + 1

\* the for loop of run(): the except clause swallows the exception and the loop goes on
NextInstance(i, raised, n) == i + 1

\* an instance on which check() was never called
Never == -1

\* faulty variant: the time of the run is not recorded
CollectionTimeNotKept(last, i, now, skip) == last

\* self.last_collection_time[i] = now, reached only when the instance is not skipped
CollectionTime(last, i, now, skip) == IF skip THEN last ELSE [last EXCEPT ![i] = now]

NoGot == [op |-> "none", out |-> <<>>, expected |-> <<>>]
NoCall == [n |-> 0, check_name |-> "", status |-> 0, tags |-> NoTags, hostname |-> None]

\* faulty variant: the getter returns the buffer and leaves it in place
DrainedKeep(buffer) == buffer

\* self.<buffer> = [] after a getter (get_events, get_service_checks,
\* get_service_metadata, get_warnings) took its contents
Drained(buffer) == <<>>

\* AgentCheck.run(), up to the loop: instance_statuses = []
\* (the profiling of developer mode only adds statistics to the records)
RunStart ==
    /\ pc \in {"idle", "done"}
    /\ nRuns < MaxRuns
    /\ pc' = "loop"
    /\ idx' = 0
    /\ instance_statuses' = <<>>
    /\ iters' = <<>>
    /\ nRuns' = nRuns + 1
    /\ got' = NoGot
    /\ UNCHANGED <<instances, min_collection_interval, clock, last_collection_time,
                   warnings, instance_metadata, svc_metadata, service_checks, events,
                   pending, nSub, historateVars, aggVars, invoked_at, storeVars,
                   collVars>>

\* One iteration of the loop of run() on instance idx. check(), when it is called,
\* emits the warnings ws and the metadata md and then raises or returns.
RunInstance(ws, md, raises) ==
    /\ pc = "loop"
    /\ idx < Len(instances)
    /\ LET instance == instances[idx + 1]
           interval == InstanceInterval(instance, min_collection_interval)
           now == clock
           skip == Throttled(now, last_collection_time[idx], interval)
           raised == ~skip /\ raises
           w1 == IF skip THEN warnings ELSE warnings \o ws
           m1 == IF skip THEN instance_metadata ELSE instance_metadata \o md
           record == RolledUp(m1)
       IN /\ last_collection_time' = CollectionTime(last_collection_time, idx, now, skip)
          /\ instance_statuses' =
                IF skip THEN instance_statuses
                ELSE instance_statuses \o Status(idx, raised, w1)
          \* finally: self._roll_up_instance_metadata(); self.get_warnings()
          /\ svc_metadata' = Append(svc_metadata, record)
          /\ instance_metadata' = <<>>
          /\ warnings' = Drained(w1)
          /\ pending' = [pending EXCEPT !.meta = Append(@, record)]
          /\ iters' = Append(iters,
                [i |-> idx, now |-> now, last |-> last_collection_time[idx],
                 lastAfter |-> last_collection_time'[idx],
                 invoked |-> ~skip, raised |-> raised,
                 emitted |-> IF skip THEN <<>> ELSE ws,
                 pendingWarnings |-> w1,
                 metaEmitted |-> IF skip THEN <<>> ELSE md,
                 rolled |-> record,
                 warningsAfter |-> warnings',
                 metaAfter |-> instance_metadata',
                 nBefore |-> Len(instance_statuses),
                 nStatuses |-> Len(instance_statuses')])
          /\ invoked_at' = IF skip THEN invoked_at ELSE [invoked_at EXCEPT ![idx] = now]
          /\ idx' = NextInstance(idx, raised, Len(instances))
    /\ got' = NoGot
    /\ UNCHANGED <<instances, min_collection_interval, clock, service_checks, events,
                   pc, nRuns, nSub, historateVars, aggVars, storeVars,
                   collVars>>

\* return instance_statuses
RunReturn ==
    /\ pc = "loop"
    /\ idx >= Len(instances)
    /\ pc' = "done"
    /\ got' = NoGot
    /\ UNCHANGED <<instances, min_collection_interval, clock, last_collection_time,
                   warnings, instance_metadata, svc_metadata, service_checks, events,
                   idx, instance_statuses, iters, pending, nRuns, nSub, historateVars, aggVars, invoked_at, storeVars,
                   collVars>>

\* time.time() advances
Tick ==
    /\ clock < MaxInterval + MaxClock
    /\ clock' = clock + 1
    /\ UNCHANGED <<instances, min_collection_interval, last_collection_time, warnings,
                   instance_metadata, svc_metadata, service_checks, events, pc, idx,
                   instance_statuses, iters, got, pending, nRuns, nSub, historateVars, aggVars, invoked_at, storeVars,
                   collVars>>

\* the variables the submission and drain verbs leave alone
runLoopVars == <<instances, min_collection_interval, clock, last_collection_time, pc, idx,
                 instance_statuses, iters, nRuns>>

\* AgentCheck.warning(warning_message), called outside check()
Warning(warning_message) ==
    /\ pc # "loop"
    /\ warnings' = Append(warnings, warning_message)
    /\ nSub' = nSub + 1
    /\ got' = NoGot
    /\ UNCHANGED <<instance_metadata, svc_metadata, service_checks, events, pending,
                   runLoopVars, historateVars, aggVars, invoked_at, storeVars,
                   collVars>>

\* AgentCheck.service_metadata(meta_name, value), called outside check()
ServiceMetadata(meta_name, value) ==
    /\ pc # "loop"
    /\ instance_metadata' = Append(instance_metadata, <<meta_name, value>>)
    /\ nSub' = nSub + 1
    /\ got' = NoGot
    /\ UNCHANGED <<warnings, svc_metadata, service_checks, events, pending,
                   runLoopVars, historateVars, aggVars, invoked_at, storeVars,
                   collVars>>

\* the distinct tags of s, in sort order
\* faulty variant: the tags are sorted but keep their duplicates
SortedKeepDuplicates(s) == InsertionSort(s)

RECURSIVE SortedSet(_)
SortedSet(s) ==
    IF s = <<>> THEN <<>>
    ELSE LET rest == SortedSet(Tail(s))
         IN IF \E j \in 1..Len(rest) : rest[j] = Head(s) THEN rest
            ELSE Insert(Head(s), rest)

\* create_service_check: the dict; 'host_name', 'tags' and 'message' are left out
\* when None. timestamp 0 stands for None ("timestamp or time.time()"); the 'id'
\* that util.get_next_id draws is left out of the model.
create_service_check(check_name, status, tags, timestamp, now, hostname, message) ==
    [check |-> check_name, status |-> status,
     timestamp |-> IF timestamp = 0 THEN now ELSE timestamp,
     host_name |-> hostname, tags |-> tags, message |-> message]

\* the events list after AgentCheck.event(event): "Events are disabled", the method
\* returns before self.events.append(event)
EventAppend(evts, event) == evts

\* AgentCheck.event(event)
Event(event) ==
    /\ pc # "loop"
    /\ events' = EventAppend(events, event)
    /\ pending' = [pending EXCEPT !.ev = Append(@, event)]
    /\ nSub' = nSub + 1
    /\ got' = NoGot
    /\ UNCHANGED <<warnings, instance_metadata, svc_metadata, service_checks,
                   runLoopVars, historateVars, aggVars, invoked_at, storeVars,
                   collVars>>

\* AgentCheck.service_check(check_name, status, tags, timestamp=None, hostname,
\* check_run_id=None, message=None)
ServiceCheck(check_name, status, tags, hostname) ==
    /\ pc # "loop"
    /\ LET host == IF hostname = None THEN AgentHostname ELSE hostname
           tags1 == IF tags.kind # "none" /\ tags.seq # <<>>
                    THEN ListTags(SortedSet(tags.seq)) ELSE tags
           sc == create_service_check(check_name, status, tags1, 0, clock, host, None)
       IN /\ service_checks' = Append(service_checks, sc)
          /\ pending' = [pending EXCEPT !.sc = Append(@, sc),
                                        !.call = [n |-> nSub + 1, check_name |-> check_name,
                                                  status |-> status, tags |-> tags,
                                                  hostname |-> hostname]]
    /\ nSub' = nSub + 1
    /\ got' = NoGot
    /\ UNCHANGED <<warnings, instance_metadata, svc_metadata, events,
                   runLoopVars, historateVars, aggVars, invoked_at, storeVars,
                   collVars>>

\* AgentCheck.has_events()
has_events(evts) == Len(evts) > 0

\* AgentCheck.get_events()
GetEvents ==
    /\ pc # "loop"
    /\ got' = [op |-> "get_events", out |-> events, expected |-> pending.ev]
    /\ events' = Drained(events)
    /\ pending' = [pending EXCEPT !.ev = <<>>]
    /\ UNCHANGED <<warnings, instance_metadata, svc_metadata, service_checks,
                   nSub, runLoopVars, historateVars, aggVars, invoked_at, storeVars,
                   collVars>>

\* AgentCheck.get_service_checks()
GetServiceChecks ==
    /\ pc # "loop"
    /\ got' = [op |-> "get_service_checks", out |-> service_checks,
               expected |-> pending.sc]
    /\ service_checks' = Drained(service_checks)
    /\ pending' = [pending EXCEPT !.sc = <<>>]
    /\ UNCHANGED <<warnings, instance_metadata, svc_metadata, events,
                   nSub, runLoopVars, historateVars, aggVars, invoked_at, storeVars,
                   collVars>>

\* AgentCheck.get_service_metadata(): pending instance metadata is rolled up first
GetServiceMetadata ==
    /\ pc # "loop"
    /\ LET roll == Len(instance_metadata) > 0
           svc1 == IF roll THEN Append(svc_metadata, RolledUp(instance_metadata))
                   ELSE svc_metadata
       IN /\ got' = [op |-> "get_service_metadata", out |-> svc1,
                     expected |-> IF roll
                                  THEN Append(pending.meta, RolledUp(instance_metadata))
                                  ELSE pending.meta]
          /\ svc_metadata' = Drained(svc1)
          /\ instance_metadata' = IF roll THEN <<>> ELSE instance_metadata
    /\ pending' = [pending EXCEPT !.meta = <<>>]
    /\ UNCHANGED <<warnings, service_checks, events, nSub, runLoopVars, historateVars, aggVars, invoked_at, storeVars,
                   collVars>>

----------------------------------------------------------------------------
\* class Collector (src/checks/collector.py): one collection cycle, Collector.run(),
\* over the checks.d checks, and AgentPayload.emit over the emitters; stop() is
\* called from another thread at any moment.

\* Collector.push_times and Collector._should_send_additional_data
DataNames == {"host_metadata", "external_host_tags", "agent_checks", "processes"}

\* the 'interval' entries of push_times, read from the agent config, and the head
\* start ("3 * 60") of the external host tags, in ticks of the clock
PushIntervals ==
    [host_metadata |-> 3, external_host_tags |-> 2, agent_checks |-> 2, processes |-> 1]
HostTagsWait == 1

\* self.push_times as Collector.__init__ builds it at time now
PushTimes(now) ==
    [d \in DataNames |->
        [start |-> IF d = "external_host_tags" THEN now - HostTagsWait ELSE now,
         interval |-> PushIntervals[d]]]

NoSent == [d \in DataNames |-> [n |-> 0, ret |-> FALSE, now |-> 0]]

\* Collector._is_first_run
is_first_run(run_count) == run_count <= 1

\* faulty variant: the timer is restarted in the first run too
ShouldSendRestartsAlways(times, run_count, data_name, now) ==
    IF is_first_run(run_count) \/ now - times[data_name].start >= times[data_name].interval
    THEN [ret |-> TRUE, push_times |-> [times EXCEPT ![data_name].start = now]]
    ELSE [ret |-> FALSE, push_times |-> times]

\* Collector._should_send_additional_data(data_name) with time.time() reading now:
\* what it returns and the push_times it leaves
should_send_additional_data(times, run_count, data_name, now) ==
    IF is_first_run(run_count) THEN [ret |-> TRUE, push_times |-> times]
    ELSE IF now - times[data_name].start >= times[data_name].interval
    THEN [ret |-> TRUE, push_times |-> [times EXCEPT ![data_name].start = now]]
    ELSE [ret |-> FALSE, push_times |-> times]

\* the push_times after _should_send_additional_data was called for each of names
RECURSIVE ShouldSendAll(_, _, _, _)
ShouldSendAll(times, run_count, names, now) ==
    IF names = <<>> THEN times
    ELSE ShouldSendAll(should_send_additional_data(times, run_count, Head(names), now).push_times,
                       run_count, Tail(names), now)

\* history: what these calls returned
RECURSIVE SentAll(_, _, _, _, _)
SentAll(s, times, run_count, names, now) ==
    IF names = <<>> THEN s
    ELSE LET r == should_send_additional_data(times, run_count, Head(names), now)
         IN SentAll([s EXCEPT ![Head(names)] = [n |-> @.n + 1, ret |-> r.ret, now |-> now]],
                    r.push_times, run_count, Tail(names), now)

\* the data names _populate_payload_metadata asks about, in order
MetadataNames == <<"host_metadata", "external_host_tags", "agent_checks">>

Unbound == "unbound"
NoStop == [at |-> "none", nStarted |-> 0, nInvoked |-> 0]
AgentMetricsCheck == "agent_metrics"

\* the step of the try block of Collector.run() that raises, "none" when none does
TrySteps == {"none", "run", "get_metrics", "get_events", "get_service_metadata"}

\* CheckStatus.status: ERROR when the check failed to load or one of its instance
\* statuses is ERROR, OK otherwise
CheckStatusOf(init_failed, instance_error) ==
    IF init_failed \/ instance_error THEN "ERROR" ELSE "OK"

\* CheckStatus(check.name, instance_statuses, ..., service_metadata=current_check_metadata)
\* with the service_check_count set afterwards; raised tells whether the try block
\* was left by an exception
CheckStatus(name, raised, service_metadata, instance_error, service_check_count) ==
    [name |-> name, raised |-> raised, service_metadata |-> service_metadata,
     status |-> CheckStatusOf(FALSE, instance_error),
     service_check_count |-> service_check_count, init_failed_error |-> None]

\* CheckStatus(check_name, None, None, None, None, init_failed_error=info['error'],
\* init_failed_traceback=info['traceback'])
InitFailedStatus(name) ==
    [name |-> name, raised |-> FALSE, service_metadata |-> None,
     status |-> CheckStatusOf(TRUE, FALSE),
     service_check_count |-> None, init_failed_error |-> "error"]

\* the service checks of the payload: those a check submitted itself, the derived
\* serverdensity.agent.check_status and the agent's serverdensity.agent.up
OwnServiceCheck(name) == [check |-> "own", status |-> "OK", tags |-> name]
CheckStatusServiceCheck(name, status) ==
    [check |-> "serverdensity.agent.check_status",
     status |-> IF status = "OK" THEN "OK" ELSE "CRITICAL", tags |-> name]
AgentUpServiceCheck == [check |-> "serverdensity.agent.up", status |-> "OK", tags |-> None]

\* what check.get_service_checks() returns after the derived service check was
\* submitted: the check's own service checks of this cycle, then the derived one
DrainedServiceChecks(name, own, status) ==
    [j \in 1..own |-> OwnServiceCheck(name)] \o <<CheckStatusServiceCheck(name, status)>>

\* service_check_count = len(current_check_service_checks) - 1
ServiceCheckCount(current) == Len(current) - 1

\* the list without its first occurrence of x (list.remove)
RECURSIVE Remove(_, _)
Remove(list, x) ==
    IF list = <<>> THEN <<>>
    ELSE IF Head(list) = x THEN Tail(list)
    ELSE <<Head(list)>> \o Remove(Tail(list), x)

\* the checksd argument: a freshly built list of checks, or the dict of the previous
\* cycle again, whose list is the one self.initialized_checks_d refers to
FreshList(list) == [same |-> FALSE, initialized_checks |-> list]
SameList == [same |-> TRUE, initialized_checks |-> <<>>]

\* the local current_check_metadata after the try block: assigned by the last
\* statement that can raise, it keeps what it held when an earlier one raises
MetadataAfterTry(current, check, raises) ==
    IF raises = "none" THEN check ELSE current

\* Collector.run(checksd, configs_reloaded=...), up to the loop over the checks:
\* self.initialized_checks_d is the caller's list, from which the agent metrics check
\* is popped when self._agent_metrics is not set yet or the configs were reloaded
CollectorRun(checksd, configs_reloaded) ==
    /\ cpc \in {"idle", "returned"}
    /\ nCycles < MaxCycles
    /\ checksd.same => nCycles > 0
    /\ LET list == IF checksd.same THEN initialized_checks_d
                   ELSE checksd.initialized_checks
           pop == (~agent_metrics \/ configs_reloaded)
                    /\ \E j \in 1..Len(list) : list[j] = AgentMetricsCheck
       IN /\ agent_metrics' = (agent_metrics \/ pop)
          /\ initialized_checks_d' = IF pop THEN Remove(list, AgentMetricsCheck) ELSE list
    /\ payload_service_checks' = <<>>
    /\ nCycles' = nCycles + 1
    /\ cpc' = "checks"
    /\ ci' = 1
    /\ current_check_metadata' = Unbound
    /\ check_statuses' = <<>>
    /\ started' = <<>>
    /\ invoked' = <<>>
    /\ stopPoint' = IF continue_running THEN NoStop
                    ELSE [at |-> "before", nStarted |-> 0, nInvoked |-> 0]
    /\ outcome' = "running"
    \* self._should_send_additional_data('processes') (not on Windows)
    /\ push_times' = ShouldSendAll(push_times, nCycles + 1, <<"processes">>, clock)
    /\ sent' = SentAll(sent, push_times, nCycles + 1, <<"processes">>, clock)
    /\ UNCHANGED <<continue_running, init_failed_checks_d, emitters, flagArg, ek,
                   storeVars, runVars, payload, configVars>>

\* the head of the loop over initialized_checks_d: return when stopping, else
\* check.run() is called
CheckTop ==
    /\ cpc = "checks"
    /\ ci <= Len(initialized_checks_d)
    /\ IF ~continue_running
       THEN /\ cpc' = "returned"
            /\ outcome' = "None"
            /\ UNCHANGED started
       ELSE /\ cpc' = "check"
            /\ started' = Append(started, initialized_checks_d[ci])
            /\ UNCHANGED outcome
    /\ UNCHANGED <<continue_running, initialized_checks_d, init_failed_checks_d,
                   agent_metrics, emitters, ci, current_check_metadata, check_statuses,
                   flagArg, ek, invoked, stopPoint, nCycles, storeVars, runVars, payload, configVars, timerVars,
                   payload_service_checks>>

\* the rest of the iteration: the try block, in which step `raises` raises, and the
\* CheckStatus built after it. Reading current_check_metadata while it is unbound
\* raises UnboundLocalError outside the try block, which ends run().
\* Then the derived service check is submitted to the check, the check's service
\* checks are drained into the payload and the status is appended. instance_error:
\* run() returned an instance status ERROR; own: the number of service checks the
\* check submitted itself.
CheckBody(raises, instance_error, own) ==
    /\ cpc = "check"
    /\ LET check == initialized_checks_d[ci]
           meta == MetadataAfterTry(current_check_metadata, check, raises)
           \* instance_statuses stays [] when check.run() itself raises
           status == CheckStatusOf(FALSE, instance_error /\ raises # "run")
           current == DrainedServiceChecks(check, own, status)
       IN IF meta = Unbound
          THEN /\ cpc' = "aborted"
               /\ outcome' = "UnboundLocalError"
               /\ UNCHANGED <<ci, current_check_metadata, check_statuses,
                              payload_service_checks>>
          ELSE /\ cpc' = "checks"
               /\ ci' = ci + 1
               /\ current_check_metadata' = meta
               /\ payload_service_checks' = payload_service_checks \o current
               /\ check_statuses' =
                    Append(check_statuses,
                           CheckStatus(check, raises # "none", meta,
                                       instance_error /\ raises # "run",
                                       ServiceCheckCount(current)))
               /\ UNCHANGED outcome
    /\ UNCHANGED <<continue_running, initialized_checks_d, init_failed_checks_d,
                   agent_metrics, emitters, flagArg, ek, started, invoked, stopPoint,
                   nCycles, storeVars, runVars, payload, configVars, timerVars>>

\* the loop over init_failed_checks_d, which tests the flag only when there is a
\* check that failed to load, and the serverdensity.agent.up service check
InitFailedChecks ==
    /\ cpc = "checks"
    /\ ci > Len(initialized_checks_d)
    /\ IF init_failed_checks_d # {} /\ ~continue_running
       THEN /\ cpc' = "returned"
            /\ outcome' = "None"
            /\ UNCHANGED <<check_statuses, payload_service_checks, timerVars>>
       ELSE /\ cpc' = "agent"
            \* self._populate_payload_metadata(payload, check_statuses, start_event)
            /\ push_times' = ShouldSendAll(push_times, nCycles, MetadataNames, clock)
            /\ sent' = SentAll(sent, push_times, nCycles, MetadataNames, clock)
            /\ check_statuses' =
                 check_statuses \o
                 (IF init_failed_checks_d = {} THEN <<>>
                  ELSE <<InitFailedStatus(CHOOSE c \in init_failed_checks_d : TRUE)>>)
            /\ payload_service_checks' = Append(payload_service_checks, AgentUpServiceCheck)
            /\ UNCHANGED outcome
    /\ UNCHANGED <<continue_running, initialized_checks_d, init_failed_checks_d,
                   agent_metrics, emitters, ci, current_check_metadata, flagArg, ek,
                   started, invoked, stopPoint, nCycles, storeVars, runVars, payload,
                   configVars>>

\* if self._agent_metrics: ... self._agent_metrics.run()
AgentMetricsStart ==
    /\ cpc = "agent"
    /\ IF agent_metrics
       THEN /\ cpc' = "agentRun"
            /\ started' = Append(started, AgentMetricsCheck)
       ELSE /\ cpc' = "emit"
            /\ UNCHANGED started
    /\ UNCHANGED <<continue_running, initialized_checks_d, init_failed_checks_d,
                   agent_metrics, emitters, ci, current_check_metadata, check_statuses,
                   flagArg, ek, invoked, stopPoint, outcome, nCycles, storeVars, runVars, payload, configVars, timerVars,
                   payload_service_checks>>

\* the agent metrics check has run and was drained
AgentMetricsDone ==
    /\ cpc = "agentRun"
    /\ cpc' = "emit"
    /\ UNCHANGED <<continue_running, initialized_checks_d, init_failed_checks_d,
                   agent_metrics, emitters, ci, current_check_metadata, check_statuses,
                   flagArg, ek, started, invoked, stopPoint, outcome, nCycles,
                   storeVars, runVars, payload, configVars, timerVars,
                   payload_service_checks>>

\* payload.emit(log, self.agentConfig, self.emitters, self.continue_running): the
\* flag is passed by value
EmitCall ==
    /\ cpc = "emit"
    /\ flagArg' = continue_running
    /\ ek' = 1
    /\ cpc' = "emitters"
    /\ UNCHANGED <<continue_running, initialized_checks_d, init_failed_checks_d,
                   agent_metrics, emitters, ci, current_check_metadata, check_statuses,
                   started, invoked, stopPoint, outcome, nCycles, storeVars, runVars, payload, configVars, timerVars,
                   payload_service_checks>>

\* the flag _emit_payload tests before each emitter: its own argument
EmitFlag(arg, flag) == arg

\* the head of the loop of _emit_payload: return when stopping, else call the emitter
EmitterTop ==
    /\ cpc = "emitters"
    /\ ek <= Len(emitters)
    /\ IF ~EmitFlag(flagArg, continue_running)
       THEN /\ cpc' = "finish"
            /\ UNCHANGED invoked
       ELSE /\ cpc' = "emitter"
            /\ invoked' = Append(invoked, emitters[ek])
    /\ UNCHANGED <<continue_running, initialized_checks_d, init_failed_checks_d,
                   agent_metrics, emitters, ci, current_check_metadata, check_statuses,
                   flagArg, ek, started, stopPoint, outcome, nCycles, storeVars, runVars, payload, configVars, timerVars,
                   payload_service_checks>>

\* the emitter returned or raised: either way its status is appended
EmitterDone ==
    /\ cpc = "emitter"
    /\ ek' = ek + 1
    /\ cpc' = "emitters"
    /\ UNCHANGED <<continue_running, initialized_checks_d, init_failed_checks_d,
                   agent_metrics, emitters, ci, current_check_metadata, check_statuses,
                   flagArg, started, invoked, stopPoint, outcome, nCycles,
                   storeVars, runVars, payload, configVars, timerVars,
                   payload_service_checks>>

\* emit returns the statuses and run() returns the payload
CollectorReturn ==
    /\ \/ cpc = "finish"
       \/ cpc = "emitters" /\ ek > Len(emitters)
    /\ cpc' = "returned"
    /\ outcome' = "payload"
    /\ UNCHANGED <<continue_running, initialized_checks_d, init_failed_checks_d,
                   agent_metrics, emitters, ci, current_check_metadata, check_statuses,
                   flagArg, ek, started, invoked, stopPoint, nCycles, storeVars, runVars, payload, configVars, timerVars,
                   payload_service_checks>>

\* Collector.stop(), called from another thread
Stop ==
    /\ continue_running
    /\ continue_running' = FALSE
    /\ stopPoint' = [at |-> cpc, nStarted |-> Len(started), nInvoked |-> Len(invoked)]
    /\ UNCHANGED <<initialized_checks_d, init_failed_checks_d, agent_metrics, emitters,
                   cpc, ci, current_check_metadata, check_statuses, flagArg, ek, started,
                   invoked, outcome, nCycles, storeVars, runVars, payload, configVars, timerVars, payload_service_checks>>

\* class AgentPayload (src/checks/collector.py)
METADATA_KEYS == {"meta", "tags", "host-tags", "systemStats", "agent_checks", "gohai",
                  "external_host_tags"}
DUPLICATE_KEYS == {"agentKey", "agentVersion"}

\* the dict d without key k
DelKey(d, k) == [x \in DOMAIN d \ {k} |-> d[x]]

\* AgentPayload.__init__
EmptyPayload == [data_payload |-> EmptyDict, meta_payload |-> EmptyDict, assigned |-> EmptyDict]

\* faulty variant of setitem: a duplicate key is written to the data payload only
SetItemDataOnly(p, key, value) ==
    IF key \in METADATA_KEYS
    THEN [p EXCEPT !.meta_payload = Put(@, key, value)]
    ELSE [p EXCEPT !.data_payload = Put(@, key, value)]

\* AgentPayload.__setitem__
setitem(p, key, value) ==
    IF key \in DUPLICATE_KEYS
    THEN [p EXCEPT !.data_payload = Put(@, key, value), !.meta_payload = Put(@, key, value)]
    ELSE IF key \in METADATA_KEYS
    THEN [p EXCEPT !.meta_payload = Put(@, key, value)]
    ELSE [p EXCEPT !.data_payload = Put(@, key, value)]

\* AgentPayload.__delitem__: a del of a key the dict does not hold raises KeyError
\* and ends the method there
delitem(p, key) ==
    IF key \in DUPLICATE_KEYS
    THEN IF key \notin DOMAIN p.data_payload THEN p
         ELSE IF key \notin DOMAIN p.meta_payload
              THEN [p EXCEPT !.data_payload = DelKey(@, key)]
         ELSE [p EXCEPT !.data_payload = DelKey(@, key), !.meta_payload = DelKey(@, key)]
    ELSE IF key \in METADATA_KEYS
    THEN [p EXCEPT !.meta_payload = DelKey(@, key)]
    ELSE [p EXCEPT !.data_payload = DelKey(@, key)]

\* AgentPayload.__getitem__; None stands for KeyError
getitem(p, key) ==
    LET d == IF key \in METADATA_KEYS THEN p.meta_payload ELSE p.data_payload
    IN IF key \in DOMAIN d THEN d[key] ELSE None

\* AgentPayload.payload: res = self.data_payload.copy(); res.update(self.meta_payload)
MergedPayload(p) == p.meta_payload @@ p.data_payload

\* payload[key] = value
SetItem(key, value) ==
    /\ payload' = [setitem(payload, key, value) EXCEPT !.assigned = Put(@, key, value)]
    /\ nOps' = nOps + 1
    /\ UNCHANGED <<sample_store, counters, rd, sv, metricsOut, declared, hist, scan,
                   runVars, continue_running, initialized_checks_d, init_failed_checks_d,
                   agent_metrics, emitters, cpc, ci, current_check_metadata,
                   check_statuses, payload_service_checks, flagArg, ek, started, invoked,
                   stopPoint, outcome, nCycles, configVars, timerVars>>

\* del payload[key]
DelItem(key) ==
    /\ payload' = [delitem(payload, key) EXCEPT !.assigned = DelKey(@, key)]
    /\ nOps' = nOps + 1
    /\ UNCHANGED <<sample_store, counters, rd, sv, metricsOut, declared, hist, scan,
                   runVars, continue_running, initialized_checks_d, init_failed_checks_d,
                   agent_metrics, emitters, cpc, ci, current_check_metadata,
                   check_statuses, payload_service_checks, flagArg, ek, started, invoked,
                   stopPoint, outcome, nCycles, configVars, timerVars>>

----------------------------------------------------------------------------
\* AgentCheck.historate (src/checks/__init__.py)

\* tag.startswith(exc_tag + ":") over the tags of TagNames
StartsWith(tag, exc_tag) == <<tag, exc_tag>> \in {<<"env:x", "env">>, <<"env:y", "env">>}

\* "-".join(s)
RECURSIVE Join(_)
Join(s) ==
    IF s = <<>> THEN ""
    ELSE IF Len(s) = 1 THEN s[1]
    ELSE s[1] \o "-" \o Join(Tail(s))

\* the inner loop of the removal: for exc_tag in excluding_tags, remove tag from tags
\* when it starts with exc_tag + ":"; list.remove of an absent value raises ValueError
RECURSIVE RemoveMatches(_, _, _)
RemoveMatches(tags, tag, excluding_tags) ==
    IF excluding_tags = <<>> THEN [exc |-> "", tags |-> tags]
    ELSE IF StartsWith(tag, Head(excluding_tags))
    THEN IF \E i \in 1..Len(tags) : tags[i] = tag
         THEN RemoveMatches(Remove(tags, tag), tag, Tail(excluding_tags))
         ELSE [exc |-> "ValueError", tags |-> tags]
    ELSE RemoveMatches(tags, tag, Tail(excluding_tags))

\* for tag in list(tags): ... over the copy rest of the tags
RECURSIVE RemoveExcluded(_, _, _)
RemoveExcluded(tags, rest, excluding_tags) ==
    IF rest = <<>> THEN [exc |-> "", tags |-> tags]
    ELSE LET r == RemoveMatches(tags, Head(rest), excluding_tags)
         IN IF r.exc # "" THEN r ELSE RemoveExcluded(r.tags, Tail(rest), excluding_tags)

\* faulty variant of the context: the tags are left out of it
HistorateContextNoTags(metric, tags, hostname, device_name) ==
    <<metric>> \o (IF hostname # None THEN <<"host:" \o hostname>> ELSE <<>>)
               \o (IF device_name # None THEN <<"device:" \o device_name>> ELSE <<>>)

\* the context tuple of a historate call; tags is the copy list(tags)
HistorateContext(metric, tags, hostname, device_name) ==
    <<metric, Join(sorted(tags))>>
        \o (IF hostname # None THEN <<"host:" \o hostname>> ELSE <<>>)
        \o (IF device_name # None THEN <<"device:" \o device_name>> ELSE <<>>)

NoHistorate ==
    [n |-> 0, metric |-> "", value |-> 0, excluding_tags |-> <<>>, tags |-> NoTags,
     hostname |-> None, device_name |-> None, now |-> 0, exc |-> "", context |-> <<>>,
     had |-> FALSE, prev_value |-> 0, prev_ts |-> 0,
     emitted |-> FALSE, rate |-> Float_(0), histogram_tags |-> <<>>]

\* AgentCheck.historate with time.time() reading now: the new historate_dict and the
\* record of the call. tags = list(tags) raises TypeError for tags=None; the division
\* raises ZeroDivisionError when now equals the stored timestamp; an exception ends
\* the call before the store.
historate(metric, value, excluding_tags, tags, hostname, device_name, now) ==
    LET list == tags.seq
        context == HistorateContext(metric, list, hostname, device_name)
        had == context \in DOMAIN historate_dict
        prev == IF had THEN historate_dict[context] ELSE [value |-> 0, ts |-> 0]
        removed == RemoveExcluded(list, list, excluding_tags)
        call == [NoHistorate EXCEPT !.n = nSub + 1, !.metric = metric, !.value = value,
                                    !.excluding_tags = excluding_tags, !.tags = tags,
                                    !.hostname = hostname, !.device_name = device_name,
                                    !.now = now]
        found == [call EXCEPT !.context = context, !.had = TRUE,
                              !.prev_value = prev.value, !.prev_ts = prev.ts]
    IN IF tags.kind = "none"
       THEN [dict |-> historate_dict, call |-> [call EXCEPT !.exc = "TypeError"]]
       ELSE IF ~had
       THEN [dict |-> Put(historate_dict, context, [value |-> value, ts |-> now]),
             call |-> [call EXCEPT !.context = context]]
       ELSE IF removed.exc # ""
       THEN [dict |-> historate_dict, call |-> [found EXCEPT !.exc = removed.exc]]
       ELSE IF now = prev.ts
       THEN [dict |-> historate_dict, call |-> [found EXCEPT !.exc = "ZeroDivisionError"]]
       ELSE [dict |-> Put(historate_dict, context, [value |-> value, ts |-> now]),
             call |-> [found EXCEPT !.emitted = TRUE,
                                    !.rate = PyDiv(Float_(value - prev.value),
                                                   Float_(now - prev.ts)),
                                    !.histogram_tags = removed.tags]]

\* self.historate(metric, value, excluding_tags, tags, hostname, device_name)
Historate(metric, value, excluding_tags, tags, hostname, device_name) ==
    LET r == historate(metric, value, excluding_tags, tags, hostname, device_name, clock)
    IN /\ historate_dict' = r.dict
       /\ hcall' = r.call
       /\ nSub' = nSub + 1
       /\ UNCHANGED <<instances, min_collection_interval, clock, last_collection_time,
                      warnings, instance_metadata, svc_metadata, service_checks, events,
                      pc, idx, instance_statuses, iters, got, pending, nRuns, aggVars,
                      invoked_at, storeVars, collVars>>

----------------------------------------------------------------------------
\* The submission verbs of AgentCheck that delegate to self.aggregator, and
\* AgentCheck.get_metrics. The aggregator keeps one state per context; here a
\* context is a metric, and each metric has the kind of the verb it is fed by.
AggContexts == <<"gauge", "count", "monotonic_count", "histogram", "set">>

NoContext ==
    [has |-> FALSE, value |-> 0, sampled |-> FALSE, sum |-> 0, samples |-> <<>>,
     values |-> {}]

NoFlush == [n |-> 0, points |-> <<>>, quiet |-> FALSE, since |-> 0, raws |-> <<>>,
            flushed_raws |-> <<>>]

Point(metric, value) == [metric |-> metric, value |-> value]

Max0(n) == IF n > 0 THEN n ELSE 0

\* faulty variant of count_from_counter: a decrease contributes its negative delta
CountFromCounterSigned(c, value) ==
    IF ~c.has THEN [c EXCEPT !.has = TRUE, !.value = value, !.sampled = TRUE]
    ELSE [c EXCEPT !.value = value, !.sampled = TRUE, !.sum = @ + (value - c.value)]

\* aggregator.count_from_counter: the first raw value is the baseline; a later one
\* adds max(0, value - last) and becomes the last raw value
count_from_counter(c, value) ==
    IF ~c.has THEN [c EXCEPT !.has = TRUE, !.value = value, !.sampled = TRUE]
    ELSE [c EXCEPT !.value = value, !.sampled = TRUE, !.sum = @ + Max0(value - c.value)]

\* aggregator.gauge / submit_count / histogram / set
submit(kind, c, value) ==
    CASE kind = "gauge" -> [c EXCEPT !.has = TRUE, !.value = value, !.sampled = TRUE]
      [] kind = "count" -> [c EXCEPT !.sampled = TRUE, !.sum = @ + value]
      [] kind = "monotonic_count" -> count_from_counter(c, value)
      [] kind = "histogram" -> [c EXCEPT !.sampled = TRUE, !.samples = Append(@, value)]
      [] kind = "set" -> [c EXCEPT !.sampled = TRUE, !.values = @ \cup {value}]

SeqMax(s) == CHOOSE x \in {s[i] : i \in 1..Len(s)} : \A i \in 1..Len(s) : s[i] <= x
SeqMin(s) == CHOOSE x \in {s[i] : i \in 1..Len(s)} : \A i \in 1..Len(s) : x <= s[i]

\* faulty variant of the flush of one context: a gauge is reported only in the cycle
\* it was submitted in
FlushPointsSampledOnly(kind, c) ==
    CASE kind = "gauge" -> IF c.sampled THEN <<Point("gauge", c.value)>> ELSE <<>>
      [] kind = "count" -> IF c.sampled THEN <<Point("count", c.sum)>> ELSE <<>>
      [] kind = "monotonic_count" ->
            IF c.sampled THEN <<Point("monotonic_count", c.sum)>> ELSE <<>>
      [] kind = "histogram" ->
            IF c.samples # <<>>
            THEN <<Point("histogram.min", SeqMin(c.samples)),
                   Point("histogram.max", SeqMax(c.samples)),
                   Point("histogram.count", Len(c.samples))>>
            ELSE <<>>
      [] kind = "set" -> IF c.values # {} THEN <<Point("set", Cardinality(c.values))>>
                         ELSE <<>>

\* the points flush() produces for one context: a gauge's last known value; the sum
\* of a count or monotonic count submitted in the cycle; the min, max and count of a
\* histogram's samples; the cardinality of a set
FlushPoints(kind, c) ==
    CASE kind = "gauge" -> IF c.has THEN <<Point("gauge", c.value)>> ELSE <<>>
      [] kind = "count" -> IF c.sampled THEN <<Point("count", c.sum)>> ELSE <<>>
      [] kind = "monotonic_count" ->
            IF c.sampled THEN <<Point("monotonic_count", c.sum)>> ELSE <<>>
      [] kind = "histogram" ->
            IF c.samples # <<>>
            THEN <<Point("histogram.min", SeqMin(c.samples)),
                   Point("histogram.max", SeqMax(c.samples)),
                   Point("histogram.count", Len(c.samples))>>
            ELSE <<>>
      [] kind = "set" -> IF c.values # {} THEN <<Point("set", Cardinality(c.values))>>
                         ELSE <<>>

\* the resets flush() performs on one context: the cycle-scoped accumulators are
\* cleared, a gauge's value and a monotonic count's last raw value are kept
FlushReset(c) == [c EXCEPT !.sampled = FALSE, !.sum = 0, !.samples = <<>>, !.values = {}]

RECURSIVE FlushAll(_, _)
FlushAll(agg, contexts) ==
    IF contexts = <<>> THEN <<>>
    ELSE FlushPoints(Head(contexts), agg[Head(contexts)]) \o FlushAll(agg, Tail(contexts))

\* self.gauge / self.count / self.monotonic_count / self.histogram / self.set
Submit(kind, value) ==
    /\ aggregator' = [aggregator EXCEPT ![kind] = submit(kind, @, value)]
    /\ flushOut' = [flushOut EXCEPT !.since = @ + 1,
                                    !.raws = IF kind = "monotonic_count"
                                             THEN Append(@, value) ELSE @]
    /\ nSub' = nSub + 1
    /\ UNCHANGED <<instances, min_collection_interval, clock, last_collection_time,
                   warnings, instance_metadata, svc_metadata, service_checks, events,
                   pc, idx, instance_statuses, iters, got, pending, nRuns,
                   historateVars, invoked_at, storeVars, collVars>>

\* self.get_metrics(): return self.aggregator.flush()
AggFlush ==
    /\ aggregator' = [k \in DOMAIN aggregator |-> FlushReset(aggregator[k])]
    /\ flushOut' = [n |-> flushOut.n + 1,
                    points |-> FlushAll(aggregator, AggContexts),
                    quiet |-> flushOut.n > 0 /\ flushOut.since = 0,
                    since |-> 0,
                    raws |-> IF flushOut.raws = <<>> THEN <<>>
                             ELSE <<flushOut.raws[Len(flushOut.raws)]>>,
                    flushed_raws |-> flushOut.raws]
    /\ nSub' = nSub + 1
    /\ UNCHANGED <<instances, min_collection_interval, clock, last_collection_time,
                   warnings, instance_metadata, svc_metadata, service_checks, events,
                   pc, idx, instance_statuses, iters, got, pending, nRuns,
                   historateVars, invoked_at, storeVars, collVars>>

----------------------------------------------------------------------------
\* get_histogram_percentiles (src/config.py). A string is a sequence of characters.
DigitChars == <<"0", "1", "2", "3", "4", "5", "6", "7", "8", "9">>
IsDigit(c) == \E i \in 1..Len(DigitChars) : DigitChars[i] = c
DigitVal(c) == (CHOOSE i \in 1..Len(DigitChars) : DigitChars[i] = c) - 1

\* val.strip()
RECURSIVE LStrip(_)
LStrip(s) == IF s # <<>> /\ Head(s) = " " THEN LStrip(Tail(s)) ELSE s
RECURSIVE RStrip(_)
RStrip(s) == IF s # <<>> /\ s[Len(s)] = " " THEN RStrip(SubSeq(s, 1, Len(s) - 1)) ELSE s
Strip(s) == RStrip(LStrip(s))

\* val[0:4]
FirstFour(s) == SubSeq(s, 1, IF Len(s) < 4 THEN Len(s) ELSE 4)

RECURSIVE DigitsValue(_)
DigitsValue(s) ==
    IF s = <<>> THEN 0
    ELSE DigitsValue(SubSeq(s, 1, Len(s) - 1)) * 10 + DigitVal(s[Len(s)])

RECURSIVE Pow10(_)
Pow10(n) == IF n = 0 THEN 1 ELSE 10 * Pow10(n - 1)

\* float(s) for strings of digits with at most one point: digits, digits.digits,
\* .digits or digits. ; any other string raises ValueError
PyFloat(s) ==
    LET points == {i \in 1..Len(s) : s[i] = "."}
        digits == SelectSeq(s, IsDigit)
        valid == /\ \A i \in 1..Len(s) : IsDigit(s[i]) \/ s[i] = "."
                 /\ Cardinality(points) <= 1
                 /\ digits # <<>>
        decimals == IF points = {} THEN 0 ELSE Len(s) - (CHOOSE i \in points : TRUE)
    IN IF valid THEN [exc |-> "", val |-> Frac(DigitsValue(digits), Pow10(decimals), TRUE)]
       ELSE [exc |-> "ValueError", val |-> Float_(0)]

\* the body of the loop for one val: the values it appends to result
PercentileOf(val) ==
    LET stripped == Strip(val)
        floatval == PyFloat(stripped)
        kept == PyFloat(FirstFour(stripped))
    IN IF floatval.exc # "" THEN <<>>
       ELSE IF floatval.val.num <= 0 \/ floatval.val.num >= floatval.val.den THEN <<>>
       ELSE IF kept.exc # "" THEN <<>>
       ELSE <<kept.val>>

\* get_histogram_percentiles(configstr) for configstr given as its split(',') list
RECURSIVE get_histogram_percentiles(_)
get_histogram_percentiles(vals) ==
    IF vals = <<>> THEN <<>>
    ELSE PercentileOf(Head(vals)) \o get_histogram_percentiles(Tail(vals))

NoPercentiles == [called |-> FALSE, vals |-> <<>>, result |-> <<>>]

\* result = get_histogram_percentiles(configstr)
GetHistogramPercentiles(vals) ==
    /\ ~pct.called
    /\ pct' = [called |-> TRUE, vals |-> vals, result |-> get_histogram_percentiles(vals)]
    /\ UNCHANGED <<storeVars, runVars, continue_running, initialized_checks_d,
                   init_failed_checks_d, agent_metrics, emitters, cpc, ci,
                   current_check_metadata, check_statuses, payload_service_checks,
                   flagArg, ek, started, invoked, stopPoint, outcome, nCycles, payload,
                   timerVars, loader>>

----------------------------------------------------------------------------
\* load_check_directory (src/config.py)

\* the entries of OLD_STYLE_PARAMETERS the agent config keys of ConfigKeys can match
OLD_STYLE_PARAMETERS == <<<<"apache_status_url", "apache">>, <<"memcache_", "memcached">>>>
NAGIOS_OLD_CONF_KEYS == {"nagios_log", "nagios_perf_cfg"}

ConfigKeys == {"apache_status_url", "memcache_servers", "nagios_log"}

\* l.startswith(k) over the keys of ConfigKeys and the prefixes of OLD_STYLE_PARAMETERS
KeyStartsWith(l, k) ==
    <<l, k>> \in {<<"apache_status_url", "apache_status_url">>,
                 <<"memcache_servers", "memcache_">>}

\* A dict is a function from its keys; the empty dict is <<>>.
Keys(d) == DOMAIN d

\* d.update(other)
Update(d, other) ==
    [k \in Keys(d) \cup Keys(other) |-> IF k \in Keys(other) THEN other[k] ELSE d[k]]

\* _deprecated_configs(agentConfig): the deprecated checks, each with its error
RECURSIVE DeprecatedFrom(_, _)
DeprecatedFrom(params, agentConfig) ==
    IF params = <<>> THEN <<>>
    ELSE LET k == Head(params)[1]
             v == Head(params)[2]
             rest == DeprecatedFrom(Tail(params), agentConfig)
         IN IF Cardinality({l \in agentConfig : KeyStartsWith(l, k)}) > 0
            THEN Update(rest, v :> "deprecated") ELSE rest
deprecated_configs(agentConfig) == DeprecatedFrom(OLD_STYLE_PARAMETERS, agentConfig)

\* A path of conf.d is the sequence of the dot-separated parts of its file name:
\* <<"apache", ".yaml">>, <<"apache", ".yaml", ".default">>, and <<"nagios">> for
\* 'deprecated/nagios'.
DeprecatedNagios == <<"nagios">>

\* os.path.splitext over the parts: the front and the last extension
SplitExt(parts) ==
    IF Len(parts) > 1 THEN <<SubSeq(parts, 1, Len(parts) - 1), parts[Len(parts)]>>
    ELSE <<parts, "">>

\* the parts of a file name in one string
RECURSIVE Concat(_)
Concat(parts) == IF parts = <<>> THEN "" ELSE Head(parts) \o Concat(Tail(parts))

\* _conf_path_to_check_name(conf_path)
conf_path_to_check_name(conf_path) ==
    LET f == SplitExt(conf_path)
        g == IF f[2] # "" /\ f[2] = ".default" THEN SplitExt(f[1]) ELSE f
    IN Concat(g[1])

\* the names of the files of conf.d in the model, in the order glob lists them
ConfNames == <<"apache", "nagios">>

\* glob.glob(os.path.join(confd_path, '*' + ext)) when conf.d holds files
RECURSIVE Glob(_, _, _)
Glob(files, names, ext) ==
    IF names = <<>> THEN <<>>
    ELSE (IF <<Head(names)>> \o ext \in files THEN << <<Head(names)>> \o ext >> ELSE <<>>)
         \o Glob(files, Tail(names), ext)

\* the default configs whose check has no config file of its own
RECURSIVE UnshadowedDefaults(_, _)
UnshadowedDefaults(defaults, current_configs) ==
    IF defaults = <<>> THEN <<>>
    ELSE (IF conf_path_to_check_name(Head(defaults)) \notin current_configs
          THEN <<Head(defaults)>> ELSE <<>>)
         \o UnshadowedDefaults(Tail(defaults), current_configs)

\* any('nagios' in config for config in itertools.chain(*all_file_configs)): the
\* chain runs over the characters of the paths, and no single character contains
\* 'nagios'
NagiosAmong(all_file_configs) ==
    \E i \in DOMAIN all_file_configs : \E part \in DOMAIN all_file_configs[i] : FALSE

\* _file_configs_paths(osname, agentConfig) when conf.d holds files
file_configs_paths(files, agentConfig) ==
    LET all_file_configs == Glob(files, ConfNames, <<".yaml">>)
        all_default_configs == Glob(files, ConfNames, <<".yaml", ".default">>)
        current_configs == {conf_path_to_check_name(all_file_configs[i]) :
                               i \in DOMAIN all_file_configs}
        with_defaults == all_file_configs \o
                         UnshadowedDefaults(all_default_configs, current_configs)
    IN IF ~NagiosAmong(with_defaults) /\ (agentConfig \cap NAGIOS_OLD_CONF_KEYS) # {}
       THEN Append(with_defaults, DeprecatedNagios)
       ELSE with_defaults

\* _load_file_config(config_path, check_name, agentConfig), parses telling whether
\* check_yaml returns: conf_is_valid and invalid_check
load_file_config(config_path, check_name, parses) ==
    IF config_path = DeprecatedNagios THEN [conf_is_valid |-> TRUE, invalid_check |-> <<>>]
    ELSE IF ~parses
    THEN [conf_is_valid |-> FALSE, invalid_check |-> check_name :> "yaml"]
    ELSE [conf_is_valid |-> TRUE, invalid_check |-> <<>>]

\* What load_check_from_places finds for a check name: no check of that name in
\* any place, a check whose class cannot be validated, a check whose constructor
\* raises (_initialize_check), or a check that is initialized.
LoadOutcomes == {"not_found", "invalid", "init_raises", "initialized"}

\* load_check_from_places(check_config, check_name, checks_places, agentConfig):
\* load_success and load_failure
load_check_from_places(check_name, found) ==
    CASE found = "initialized" ->
            [load_success |-> check_name :> "check", load_failure |-> <<>>]
      [] found = "init_raises" ->
            [load_success |-> <<>>, load_failure |-> check_name :> "init"]
      [] found = "invalid" ->
            [load_success |-> <<>>, load_failure |-> check_name :> "load"]
      [] OTHER -> [load_success |-> <<>>, load_failure |-> <<>>]

NoLoad ==
    [pc |-> "idle", agentConfig |-> {}, paths |-> <<>>, disco |-> <<>>,
     initialized_checks |-> <<>>, init_failed_checks |-> <<>>,
     deprecated_checks |-> <<>>, result |-> <<>>]

\* the variables load_check_directory leaves alone
LoadUnchanged ==
    UNCHANGED <<storeVars, runVars, continue_running, initialized_checks_d,
                init_failed_checks_d, agent_metrics, emitters, cpc, ci,
                current_check_metadata, check_statuses, payload_service_checks,
                flagArg, ek, started, invoked, stopPoint, outcome, nCycles, payload,
                pct, timerVars>>

\* load_check_directory(agentConfig, hostname) up to its first loop, with the files
\* of conf.d, the keys of agentConfig (TRACE_CONFIG not among them) and the names
\* _service_disco_configs returns, in the order the dict yields them
LoadStart(files, agentConfig, disco) ==
    /\ loader.pc = "idle"
    /\ loader' = [pc |-> "files",
                  agentConfig |-> agentConfig,
                  paths |-> file_configs_paths(files, agentConfig),
                  disco |-> disco,
                  initialized_checks |-> <<>>,
                  init_failed_checks |-> <<>>,
                  deprecated_checks |-> Update(<<>>, deprecated_configs(agentConfig)),
                  result |-> <<>>]
    /\ LoadUnchanged

\* one round of "for config_path in _file_configs_paths(osname, agentConfig)"
LoadFileConfig(parses, found) ==
    /\ loader.pc = "files"
    /\ loader.paths # <<>>
    /\ LET config_path == Head(loader.paths)
           check_name == conf_path_to_check_name(config_path)
           conf == load_file_config(config_path, check_name, parses)
           failed == Update(loader.init_failed_checks, conf.invalid_check)
           loaded == load_check_from_places(check_name, found)
       IN loader' =
             IF ~conf.conf_is_valid
             THEN [loader EXCEPT !.paths = Tail(@), !.init_failed_checks = failed]
             ELSE [loader EXCEPT
                      !.paths = Tail(@),
                      !.initialized_checks = Update(@, loaded.load_success),
                      !.init_failed_checks = Update(failed, loaded.load_failure)]
    /\ LoadUnchanged

\* one round of "for check_name, service_disco_check_config in
\* _service_disco_configs(agentConfig).iteritems()"; jmx tells whether the name is
\* one of JMX_CHECKS
LoadServiceDisco(jmx, found) ==
    /\ loader.pc = "files"
    /\ loader.paths = <<>>
    /\ loader.disco # <<>>
    /\ LET check_name == Head(loader.disco)
           loaded == load_check_from_places(check_name, found)
       IN loader' =
             IF \/ check_name \in Keys(loader.initialized_checks)
                \/ check_name \in Keys(loader.init_failed_checks)
                \/ jmx
             THEN [loader EXCEPT !.disco = Tail(@)]
             ELSE [loader EXCEPT
                      !.disco = Tail(@),
                      !.initialized_checks = Update(@, loaded.load_success),
                      !.init_failed_checks = Update(@, loaded.load_failure)]
    /\ LoadUnchanged

\* the end of load_check_directory: the deprecated checks join the failed ones and
\* the initialized checks are returned as the values of their dict, each check
\* carrying the name it was constructed with
LoadReturn ==
    /\ loader.pc = "files"
    /\ loader.paths = <<>>
    /\ loader.disco = <<>>
    /\ LET failed == Update(loader.init_failed_checks, loader.deprecated_checks)
       IN loader' = [loader EXCEPT
                        !.pc = "returned",
                        !.init_failed_checks = failed,
                        !.result = [initialized_checks |-> Keys(loader.initialized_checks),
                                    init_failed_checks |-> failed]]
    /\ LoadUnchanged

----------------------------------------------------------------------------
\* Initial states: a Check and an AgentCheck as their constructors leave them.

CheckInit ==
    /\ sample_store = EmptyDict
    /\ counters = {}
    /\ rd = NoRead
    /\ sv = NoSave
    /\ metricsOut = NoMetrics
    /\ declared = EmptyDict
    /\ hist = EmptyDict
    /\ nOps = 0
    /\ scan = NoScan

\* an instance config: without or with its own min_collection_interval
NoInterval == [has_mci |-> FALSE, mci |-> 0]
OwnInterval(n) == [has_mci |-> TRUE, mci |-> n]

\* The clock starts MaxInterval after its origin: time.time() is far larger than any
\* collection interval, so an instance that never ran is never throttled.
AgentCheckInit(instanceLists, intervals) ==
    /\ instances \in instanceLists
    /\ min_collection_interval \in intervals
    /\ clock = MaxInterval
    /\ last_collection_time = [i \in 0..(Len(instances) - 1) |-> 0]
    /\ invoked_at = [i \in 0..(Len(instances) - 1) |-> Never]
    /\ warnings = <<>>
    /\ instance_metadata = <<>>
    /\ svc_metadata = <<>>
    /\ service_checks = <<>>
    /\ events = <<>>
    /\ pc = "idle"
    /\ idx = 0
    /\ instance_statuses = <<>>
    /\ iters = <<>>
    /\ got = NoGot
    /\ pending = [ev |-> <<>>, sc |-> <<>>, meta |-> <<>>, call |-> NoCall]
    /\ nRuns = 0
    /\ nSub = 0
    /\ historate_dict = EmptyDict
    /\ hcall = NoHistorate
    /\ aggregator = [k \in {AggContexts[i] : i \in 1..Len(AggContexts)} |-> NoContext]
    /\ flushOut = NoFlush

\* Collector.__init__ and the checks and emitters it is given
CollectorInit(checkLists, failedSets, agentMetricsOpts, emitterLists) ==
    /\ continue_running = TRUE
    /\ initialized_checks_d \in checkLists
    /\ init_failed_checks_d \in failedSets
    /\ agent_metrics \in agentMetricsOpts
    /\ emitters \in emitterLists
    /\ cpc = "idle"
    /\ ci = 1
    /\ current_check_metadata = Unbound
    /\ check_statuses = <<>>
    /\ payload_service_checks = <<>>
    /\ flagArg = TRUE
    /\ ek = 1
    /\ started = <<>>
    /\ invoked = <<>>
    /\ stopPoint = NoStop
    /\ outcome = "none"
    /\ nCycles = 0
    /\ payload = EmptyPayload
    /\ pct = NoPercentiles
    /\ push_times = PushTimes(clock)
    /\ sent = NoSent
    /\ loader = NoLoad

\* no collector: nothing to run and nothing to emit to
NoCollector == CollectorInit({<<>>}, {{}}, {FALSE}, {<<>>})

----------------------------------------------------------------------------
\* Spec: the sample store of a Check under declare / save / read operations on
\* several metrics and contexts. A sample carries the reading of a clock that
\* advances with every sample saved.

Metrics == {"m1", "m2"}
NotGiven == [given |-> FALSE, t |-> Int_(0)]
Given(t) == [given |-> TRUE, t |-> t]

\* the (metric, tags, device_name, hostname) arguments of the saves
SaveCalls ==
    {<<"m1", NoTags, None, None>>, <<"m1", ListTags(<<"a", "b">>), None, None>>,
     <<"m1", TupleTags(<<"b", "a">>), None, None>>}
SaveGaugeCalls == {<<"m2", ListTags(<<"a", "a">>), "sda", "web1">>}
\* the (metric, tags, device_name, expire) arguments of the reads
ReadCalls ==
    {<<"m1", NoTags, None, TRUE>>, <<"m1", NoTags, None, FALSE>>,
     <<"m1", ListTags(<<"a", "b">>), None, TRUE>>,
     <<"m1", ListTags(<<"b", "a">>), None, TRUE>>,
     <<"m1", TupleTags(<<"b", "a">>), None, TRUE>>,
     <<"m2", ListTags(<<"a">>), "sda", TRUE>>,
     <<"m2", ListTags(<<"a", "a">>), "sda", TRUE>>}

Init ==
    /\ CheckInit
    /\ AgentCheckInit({<<>>}, {DEFAULT_MIN_COLLECTION_INTERVAL})
    /\ NoCollector

Next ==
    \/ \E m \in Metrics : Counter(m)
    \/ \E m \in Metrics : Gauge(m)
    \/ /\ nOps < MaxOps
       /\ \E c \in SaveCalls :
            SaveSample(c[1], Number(Int_(1)), NotGiven, Float_(nOps + 1), c[2], c[4], c[3])
    \/ /\ nOps < MaxOps
       /\ \E c \in SaveGaugeCalls :
            SaveGauge(c[1], Number(Int_(1)), NotGiven, Float_(nOps + 1), c[2], c[4], c[3])
    \/ SaveSample("m1", Garbage, NotGiven, Float_(nOps + 1), NoTags, None, None)
    \/ SaveSample("m1", Number(Int_(1)), NotGiven, Float_(nOps + 1), StrTags, None, None)
    \/ \E c \in ReadCalls : GetSampleWithTimestamp(c[1], c[2], c[3], c[4])
    \/ \E e \in BOOLEAN : GetMetrics(e)

Spec == Init /\ [][Next]_vars

----------------------------------------------------------------------------
\* SpecRate: one context of one metric, declared a gauge or a counter, with int and
\* float timestamps and values in any order.

RateValues == {Number(Int_(v)) : v \in 0..MaxVal} \cup {Number(Float_(1))}
RateTimes == {Given(Int_(t)) : t \in 0..MaxT} \cup {NotGiven}

NextRate ==
    \/ Counter("m1")
    \/ Gauge("m1")
    \/ /\ nOps < MaxRateOps
       /\ \E v \in RateValues, t \in RateTimes :
            SaveSample("m1", v, t, Float_(nOps + 1), NoTags, None, None)
    \/ \E e \in BOOLEAN : GetSampleWithTimestamp("m1", NoTags, None, e)
    \/ \E e \in BOOLEAN : GetSample("m1", NoTags, None, e)

SpecRate == Init /\ [][NextRate]_vars

\* get_metrics over several contexts: counter m1 with two tag contexts, gauge m2;
\* a sample carries either the clock's time or the explicit timestamp 1, so that a
\* counter context can hold two samples of the same time.
MetricsTimes == {NotGiven, Given(Int_(1))}
MetricsTags == {NoTags, ListTags(<<"a">>)}

NextMetrics ==
    \/ Counter("m1")
    \/ Gauge("m2")
    \/ /\ nOps < MaxMetricsOps
       /\ \E t \in MetricsTimes, g \in MetricsTags :
            SaveSample("m1", Number(Int_(1)), t, Float_(nOps + 1), g, None, None)
    \/ /\ nOps < MaxMetricsOps
       /\ SaveSample("m2", Number(Int_(1)), NotGiven, Float_(nOps + 1), NoTags, None, None)
    \/ \E e \in BOOLEAN : GetMetrics(e)

SpecMetrics == Init /\ [][NextMetrics]_vars

\* One get_metrics call of a reporting thread against the saves of a submitting
\* thread, on one metric with up to three tag contexts.
RaceTags == {NoTags, ListTags(<<"a">>), ListTags(<<"b">>)}

NextRace ==
    \/ ~scan.active /\ ~scan.done /\ Counter("m1")
    \/ ~scan.active /\ ~scan.done /\ Gauge("m1")
    \/ /\ nOps < MaxRaceOps /\ ~scan.done
       /\ \E g \in RaceTags :
            SaveSample("m1", Number(Int_(1)), NotGiven, Float_(nOps + 1), g, None, None)
    \/ ~scan.done /\ \E e \in BOOLEAN : ScanBegin(e)
    \/ ScanMetric
    \/ ScanKey
    \/ ScanEnd

SpecRace == Init /\ [][NextRace]_vars

\* save_sample with tag lists that repeat a tag
DupTags == {ListTags(<<"a">>), ListTags(<<"a", "a">>), TupleTags(<<"b", "a">>),
            ListTags(<<"a", "b", "a">>)}

NextTags ==
    \/ Counter("m1")
    \/ Gauge("m1")
    \/ /\ nOps < MaxTagOps
       /\ \E g \in DupTags :
            SaveSample("m1", Number(Int_(1)), NotGiven, Float_(nOps + 1), g, None, None)
    \/ \E e \in BOOLEAN : GetMetrics(e)

SpecTags == Init /\ [][NextTags]_vars

----------------------------------------------------------------------------
\* SpecRun: an AgentCheck with MaxInstances instances: run() calls as the clock
\* advances, with warnings and metadata also left behind between the runs.

\* what a call of check() does: the warnings and the metadata it emits, and whether
\* it raises in the end
CheckScripts ==
    {[ws |-> <<>>, md |-> <<>>, raises |-> FALSE],
     [ws |-> <<"w1", "w2">>, md |-> <<<<"version", "1">>>>, raises |-> FALSE],
     [ws |-> <<"w1">>, md |-> <<>>, raises |-> TRUE],
     [ws |-> <<>>, md |-> <<<<"version", "1">>>>, raises |-> TRUE]}
InstanceLists ==
    {<<NoInterval, OwnInterval(MaxInterval)>>, <<OwnInterval(MaxInterval), NoInterval>>}

InitRun ==
    /\ CheckInit
    /\ AgentCheckInit(InstanceLists, {DEFAULT_MIN_COLLECTION_INTERVAL, 1})
    /\ NoCollector

NextRun ==
    \/ RunStart
    \/ \E c \in CheckScripts : RunInstance(c.ws, c.md, c.raises)
    \/ RunReturn
    \/ Tick
    \/ nSub < MaxLeftover /\ Warning("w0")
    \/ nSub < MaxLeftover /\ ServiceMetadata("version", "0")
    \/ pc = "done" /\ GetServiceMetadata

SpecRun == InitRun /\ [][NextRun]_vars

----------------------------------------------------------------------------
\* SpecDrain: the buffers of an AgentCheck with one instance: submissions, runs
\* (which roll the instance metadata up) and drains in any order.

InitDrain ==
    /\ CheckInit
    /\ AgentCheckInit({<<NoInterval>>}, {DEFAULT_MIN_COLLECTION_INTERVAL})
    /\ NoCollector

NextDrain ==
    \/ RunStart
    \/ \E md \in {<<>>, <<<<"version", "1">>>>} : RunInstance(<<>>, md, FALSE)
    \/ RunReturn
    \/ nSub < MaxSub /\ \E v \in {"1", "2"} : ServiceMetadata("version", v)
    \/ nSub < MaxSub /\ \E e \in {"e1", "e2"} : Event(e)
    \/ /\ nSub < MaxSub
       /\ \E c \in {<<NoTags, None>>, <<ListTags(<<"b", "a", "b">>), "web1">>} :
            ServiceCheck("svc.can_connect", 0, c[1], c[2])
    \/ GetEvents
    \/ GetServiceChecks
    \/ GetServiceMetadata

SpecDrain == InitDrain /\ [][NextDrain]_vars

----------------------------------------------------------------------------
\* SpecCollect: a Collector with MaxEmitters emitters, with or without a check that
\* failed to load; each cycle is given a fresh list of MaxChecks checks.d checks (with
\* or without the agent metrics check among them) or the list of the cycle before; in
\* each check any step of the try block may raise, and stop() may be called at any
\* moment.

CheckNames == <<"c1", "c2", "c3">>
EmitterNames == <<"e1", "e2", "e3">>

\* the lists load_check_directory builds: the checks, with or without the agent
\* metrics check among them
CheckLists ==
    LET list == SubSeq(CheckNames, 1, MaxChecks)
    IN {list, <<Head(list), AgentMetricsCheck>> \o Tail(list)}

\* what a check does in a cycle: the step of the try block that raises, whether
\* run() returns an instance status ERROR, the service checks it submits
CheckRuns ==
    {[raises |-> "none", instance_error |-> FALSE, own |-> 0],
     [raises |-> "none", instance_error |-> TRUE, own |-> 1],
     [raises |-> "run", instance_error |-> TRUE, own |-> 0],
     [raises |-> "get_metrics", instance_error |-> FALSE, own |-> 1],
     [raises |-> "get_events", instance_error |-> FALSE, own |-> 0],
     [raises |-> "get_service_metadata", instance_error |-> TRUE, own |-> 0]}

InitCollect ==
    /\ CheckInit
    /\ AgentCheckInit({<<>>}, {DEFAULT_MIN_COLLECTION_INTERVAL})
    /\ CollectorInit({<<>>}, {{}, {"bad"}}, {FALSE},
                     {SubSeq(EmitterNames, 1, MaxEmitters)})

NextCollect ==
    \/ \E checksd \in {FreshList(l) : l \in CheckLists} \cup {SameList},
          configs_reloaded \in BOOLEAN :
            CollectorRun(checksd, configs_reloaded)
    \/ CheckTop
    \/ \E c \in CheckRuns : CheckBody(c.raises, c.instance_error, c.own)
    \/ InitFailedChecks
    \/ AgentMetricsStart
    \/ AgentMetricsDone
    \/ EmitCall
    \/ EmitterTop
    \/ EmitterDone
    \/ CollectorReturn
    \/ Stop

SpecCollect == InitCollect /\ [][NextCollect]_vars

----------------------------------------------------------------------------
\* SpecPayload: an AgentPayload under item assignments and deletions of a data key,
\* two metadata keys and a duplicate key.

PayloadKeys == {"metrics", "meta", "gohai", "agentKey"}
PayloadValues == {"v1", "v2"}

NextPayload ==
    \/ nOps < MaxPayloadOps /\ \E k \in PayloadKeys, v \in PayloadValues : SetItem(k, v)
    \/ nOps < MaxPayloadOps /\ \E k \in PayloadKeys : DelItem(k)

SpecPayload == Init /\ [][NextPayload]_vars

----------------------------------------------------------------------------
\* SpecHistorate: historate calls for one metric as the clock advances, with tag
\* lists that differ in order and in tags of the excluded prefix, and with the
\* default tags=None.

HistorateTags ==
    {NoTags, ListTags(<<"a">>), ListTags(<<"a", "env:x">>), ListTags(<<"env:y", "a">>),
     ListTags(<<"env:x", "a">>)}
HistorateExcluding == {<<"env">>}
HistorateDevices == {None, "d"}

NextHistorate ==
    \/ Tick
    \/ /\ nSub < MaxHistorate
       /\ \E value \in 0..MaxVal, excluding_tags \in HistorateExcluding,
             tags \in HistorateTags, device_name \in HistorateDevices :
            Historate("m1", value, excluding_tags, tags, None, device_name)

SpecHistorate == Init /\ [][NextHistorate]_vars

----------------------------------------------------------------------------
\* SpecAggregate: submissions to one context of each kind and flushes, in any order.

AggValues == 0..MaxVal

NextAggregate ==
    \/ /\ nSub < MaxAggOps
       /\ \E kind \in {AggContexts[i] : i \in 1..Len(AggContexts)}, value \in AggValues :
            Submit(kind, value)
    \/ nSub < MaxAggOps /\ AggFlush

SpecAggregate == Init /\ [][NextAggregate]_vars

----------------------------------------------------------------------------
\* SpecPercentiles: get_histogram_percentiles on "<entry>" and "<entry>,0.5" for
\* every entry of up to MaxPctLen characters.

PctChars == {"0", "1", "5", ".", "x", " "}

RECURSIVE Strings(_)
Strings(n) ==
    IF n = 0 THEN {<<>>}
    ELSE LET shorter == Strings(n - 1)
         IN shorter \cup {Append(s, c) : s \in shorter, c \in PctChars}

PctInputs ==
    LET entries == Strings(MaxPctLen) \ {<<>>}
    IN {<<e>> : e \in entries} \cup {<<e, <<"0", ".", "5">> >> : e \in entries}

NextPercentiles == \E vals \in PctInputs : GetHistogramPercentiles(vals)

SpecPercentiles == Init /\ [][NextPercentiles]_vars

----------------------------------------------------------------------------
\* SpecTimers: collection cycles of a Collector with one check, the agent metrics
\* check and one emitter, as the clock advances between and within the cycles.

InitTimers ==
    /\ CheckInit
    /\ AgentCheckInit({<<>>}, {DEFAULT_MIN_COLLECTION_INTERVAL})
    /\ CollectorInit({<<>>}, {{}}, {FALSE}, {<<"e1">>})

NextTimers ==
    \/ \E checksd \in {FreshList(<<"c1", AgentMetricsCheck>>), SameList} :
          CollectorRun(checksd, FALSE)
    \/ CheckTop
    \/ CheckBody("none", FALSE, 0)
    \/ InitFailedChecks
    \/ AgentMetricsStart
    \/ AgentMetricsDone
    \/ EmitCall
    \/ EmitterTop
    \/ EmitterDone
    \/ CollectorReturn
    \/ Tick

SpecTimers == InitTimers /\ [][NextTimers]_vars

----------------------------------------------------------------------------
\* SpecLoad: load_check_directory over the files of conf.d, the keys of the agent
\* config and the configs of service discovery, each check found or not, valid or
\* not, initialized or raising.

\* the contents conf.d can have
ConfFiles ==
    SUBSET {<<"apache", ".yaml">>, <<"apache", ".yaml", ".default">>,
            <<"nagios", ".yaml">>, <<"nagios", ".yaml", ".default">>}

\* the names service discovery can return, in the orders the dict can yield them
DiscoConfigs == {<<>>, <<"apache">>, <<"memcached">>, <<"apache", "memcached">>,
                 <<"memcached", "apache">>}

NextLoad ==
    \/ \E files \in ConfFiles, agentConfig \in SUBSET ConfigKeys, disco \in DiscoConfigs :
          LoadStart(files, agentConfig, disco)
    \/ \E parses \in BOOLEAN, found \in LoadOutcomes : LoadFileConfig(parses, found)
    \/ \E jmx \in BOOLEAN, found \in LoadOutcomes : LoadServiceDisco(jmx, found)
    \/ LoadReturn

SpecLoad == Init /\ [][NextLoad]_vars

----------------------------------------------------------------------------
\* Properties.

\* comparisons of Python numbers
NumEq(a, b) == a.num * b.den = b.num * a.den
NumLess(a, b) == a.num * b.den < b.num * a.den

\* the iterations of the current run() in which check() was called
InvokedIters == SelectSeq(iters, LAMBDA r : r.invoked)

\* the interval the throttle of instance i is to use: the instance's own
\* min_collection_interval if it sets one, else the check-level one
IntervalOf(i) ==
    IF instances[i + 1].has_mci THEN instances[i + 1].mci ELSE min_collection_interval

\* C1: when run() has returned, the loop has visited every instance in index order,
\* check() was called on every instance that was not throttled, and the returned list
\* holds exactly one status per call of check(), in order: ERROR with a message and a
\* traceback exactly where check() raised, OK or WARNING with no error elsewhere.
C1_FailureIsolation ==
    pc = "done" =>
        /\ Len(iters) = Len(instances)
        /\ \A k \in 1..Len(iters) :
            /\ iters[k].i = k - 1
            /\ iters[k].invoked <=> ~(iters[k].now - iters[k].last < IntervalOf(k - 1))
        /\ Len(instance_statuses) = Len(InvokedIters)
        /\ \A k \in 1..Len(instance_statuses) :
            LET st == instance_statuses[k]
                it == InvokedIters[k]
            IN /\ st.instance_id = it.i
               /\ it.raised <=> st.status = "ERROR"
               /\ it.raised => st.error # None /\ st.tb # None
               /\ ~it.raised => st.status \in {"OK", "WARNING"} /\ st.error = None

\* C1 witness: a run has returned in which check() raised on one instance and was
\* then called on a later instance and returned
C1_Witness ==
    /\ pc = "done"
    /\ \E j, k \in 1..Len(iters) :
        /\ j < k
        /\ iters[j].raised
        /\ iters[k].invoked /\ ~iters[k].raised
    /\ Len(instance_statuses) = Len(instances)

\* C2: in every iteration of run(), the instance is skipped exactly when
\* now - last_collection_time[i] is below its interval (its own if set, else the
\* check-level one); a skipped instance keeps its last_collection_time and adds no
\* status record, an instance that is not skipped has check() called.
C2_ThrottleSkip ==
    \A k \in 1..Len(iters) :
        LET it == iters[k]
            below == it.now - it.last < IntervalOf(it.i)
        IN /\ ~it.invoked <=> below
           /\ ~it.invoked => /\ it.lastAfter = it.last
                             /\ it.nStatuses = it.nBefore
                             /\ \A j \in 1..Len(instance_statuses) :
                                    j > it.nBefore => instance_statuses[j].instance_id # it.i

\* C2 witness: a run in which an instance with its own interval was skipped, with the
\* check-level interval alone not throttling it, while the other instance ran
C2_Witness ==
    \E j, k \in 1..Len(iters) :
        /\ ~iters[j].invoked
        /\ instances[iters[j].i + 1].has_mci
        /\ ~(iters[j].now - iters[j].last < min_collection_interval)
        /\ iters[k].invoked

\* the last read was made on a counter context holding two samples
CounterPairRead ==
    /\ rd.op # "none"
    /\ rd.counter
    /\ Len(rd.pre) = 2

\* the samples saved to the context of the last read since the metric was declared
ReadHist ==
    IF rd.metric \in DOMAIN hist /\ rd.key \in DOMAIN hist[rd.metric]
    THEN hist[rd.metric][rd.key] ELSE <<>>

\* the kind the last declaration of the metric gave it ("" when undeclared)
DeclaredKind(metric) == IF metric \in DOMAIN declared THEN declared[metric] ELSE ""

\* C3: get_sample on a context of a metric declared a gauge that has received a
\* sample succeeds and returns the value of the last save_sample made to that
\* context, whatever the timestamps of the samples saved to it.
C3_GaugeLatestWins ==
    (/\ rd.op = "get_sample"
     /\ DeclaredKind(rd.metric) = "gauge"
     /\ ReadHist # <<>>)
    => /\ rd.exc = ""
       /\ rd.res.val = ReadHist[Len(ReadHist)].s.val

\* Where is_gauge holds, i.e. the metric has never been declared a counter, the last
\* value saved is the one get_sample returns.
GaugeLatestWinsWhereIsGauge ==
    (/\ rd.op = "get_sample"
     /\ is_gauge(sample_store, counters, rd.metric)
     /\ ReadHist # <<>>)
    => /\ rd.exc = ""
       /\ rd.res.val = ReadHist[Len(ReadHist)].s.val

\* a gauge context was given two samples with different values, the later call
\* carrying the older timestamp, and get_sample has returned the later value
GaugeLatestWinsReached ==
    /\ rd.op = "get_sample"
    /\ is_gauge(sample_store, counters, rd.metric)
    /\ Len(ReadHist) = 2
    /\ NumLess(ReadHist[2].s.ts, ReadHist[1].s.ts)
    /\ ~NumEq(ReadHist[2].s.val, ReadHist[1].s.val)
    /\ rd.exc = ""

\* C4: reading a counter context that holds (t1, v1) and (t2, v2) with t2 > t1 and
\* v2 >= v1 succeeds and returns the timestamp t2 and the rate (v2 - v1) / (t2 - t1),
\* i.e. rate * (t2 - t1) = v2 - v1.
C4_ExactRate ==
    (/\ CounterPairRead
     /\ NumLess(rd.pre[1].ts, rd.pre[2].ts)
     /\ ~NumLess(rd.pre[2].val, rd.pre[1].val))
    => /\ rd.exc = ""
       /\ rd.res.ts = rd.pre[2].ts
       /\ NumEq(rd.res.val,
                [fl |-> TRUE,
                 num |-> (rd.pre[2].val.num * rd.pre[1].val.den
                            - rd.pre[1].val.num * rd.pre[2].val.den)
                         * (rd.pre[1].ts.den * rd.pre[2].ts.den),
                 den |-> (rd.pre[2].ts.num * rd.pre[1].ts.den
                            - rd.pre[1].ts.num * rd.pre[2].ts.den)
                         * (rd.pre[1].val.den * rd.pre[2].val.den)])

\* C5 as stated: reading a counter context whose two samples have v2 < v1 fails with
\* UnknownValue, for every pair of timestamps.
C5_ResetAnyTimestamps ==
    (CounterPairRead /\ NumLess(rd.pre[2].val, rd.pre[1].val))
    => rd.exc = "UnknownValue"

\* C5: reading a counter context whose two samples have v2 < v1 fails with
\* UnknownValue for every pair of timestamps with t2 # t1; with t2 = t1 the interval
\* is tested first and the read fails with Infinity.
C5_ResetUnknownValue ==
    (CounterPairRead /\ NumLess(rd.pre[2].val, rd.pre[1].val))
    => rd.exc = (IF NumEq(rd.pre[2].ts, rd.pre[1].ts) THEN "Infinity" ELSE "UnknownValue")

\* C5 witness: a counter context whose value went down between two samples taken at
\* different times has been read, and the read failed with UnknownValue
C5_Witness ==
    /\ CounterPairRead
    /\ NumLess(rd.pre[2].val, rd.pre[1].val)
    /\ NumLess(rd.pre[1].ts, rd.pre[2].ts)
    /\ rd.exc = "UnknownValue"

\* C6: reading a counter context whose two samples have t2 = t1 fails with Infinity,
\* for every pair of values.
C6_ZeroIntervalInfinity ==
    (CounterPairRead /\ NumEq(rd.pre[2].ts, rd.pre[1].ts))
    => rd.exc = "Infinity"

\* C6 witness: a counter context with two samples of one timestamp, the second value
\* below the first, has been read and the read failed with Infinity
C6_Witness ==
    /\ CounterPairRead
    /\ NumEq(rd.pre[2].ts, rd.pre[1].ts)
    /\ NumLess(rd.pre[2].val, rd.pre[1].val)
    /\ rd.exc = "Infinity"

\* the samples of the last n entries of a context's history
LastSaved(h, n) == [j \in 1..n |-> h[Len(h) - n + j].s]

\* the samples a context holds are the n most recently saved to it
HoldsLastSaved(m, k) ==
    LET n == Len(sample_store[m][k])
    IN /\ n <= Len(hist[m][k])
       /\ sample_store[m][k] = LastSaved(hist[m][k], n)

\* C7: after any sequence of declarations, saves and reads, every existing context
\* of a metric declared a gauge holds exactly one sample, the most recently saved,
\* and every existing context of a metric declared a counter holds one or two
\* samples, the one or two most recently saved, in the order they were saved.
C7_StoreSize ==
    /\ DOMAIN hist = DOMAIN sample_store
    /\ \A m \in DOMAIN sample_store :
        /\ DOMAIN hist[m] = DOMAIN sample_store[m]
        /\ \A k \in DOMAIN sample_store[m] :
            /\ IF DeclaredKind(m) = "counter"
               THEN Len(sample_store[m][k]) \in {1, 2}
               ELSE Len(sample_store[m][k]) = 1
            /\ HoldsLastSaved(m, k)

\* With the kind read as is_counter reads it, the sizes hold: one or two samples
\* where is_counter holds, exactly one elsewhere, always the most recently saved.
StoreSizeByIsCounter ==
    /\ DOMAIN hist = DOMAIN sample_store
    /\ \A m \in DOMAIN sample_store :
        /\ DOMAIN hist[m] = DOMAIN sample_store[m]
        /\ \A k \in DOMAIN sample_store[m] :
            /\ IF is_counter(counters, m)
               THEN Len(sample_store[m][k]) \in {1, 2}
               ELSE Len(sample_store[m][k]) = 1
            /\ HoldsLastSaved(m, k)

\* a counter context that has received three samples holds the last two
StoreSizeReached ==
    \E m \in DOMAIN sample_store : \E k \in DOMAIN sample_store[m] :
        /\ is_counter(counters, m)
        /\ Len(hist[m][k]) = 3
        /\ Len(sample_store[m][k]) = 2

\* a successful read of a counter context
CounterReadOk(r) == r.op # "none" /\ r.counter /\ r.exc = ""

\* C8: a successful counter read with expire leaves exactly the latest sample in the
\* context; a read of the same context that follows it directly fails with
\* UnknownValue; and every successful counter read computes its rate between the two
\* most recently saved samples of the context, so the first rate after an expiring
\* read is the one between the retained sample and the next saved one.
C8_ExpireStep ==
    /\ (CounterReadOk(rd') /\ rd'.expire)
        => sample_store'[rd'.metric][rd'.key] = <<rd'.pre[Len(rd'.pre)]>>
    /\ (CounterReadOk(rd) /\ rd.expire /\ rd'.op # "none"
            /\ rd'.metric = rd.metric /\ rd'.key = rd.key)
        => rd'.exc = "UnknownValue" /\ sample_store' = sample_store
    /\ CounterReadOk(rd')
        => /\ Len(rd'.pre) = 2
           /\ rd'.pre = LastSaved(hist'[rd'.metric][rd'.key], 2)
           /\ rd'.res.ts = rd'.pre[2].ts
           /\ LET r == Rate(rd'.pre[1], rd'.pre[2])
              IN r.exc = "" /\ rd'.res = r.res
C8_ExpireLeavesLatest == [][C8_ExpireStep]_vars

\* C8 witness: a counter context that received two samples and was read with expire
\* has been read again with no save in between: it holds one sample and the read
\* failed with UnknownValue
C8_Witness ==
    /\ rd.op # "none"
    /\ rd.counter
    /\ Len(ReadHist) = 2
    /\ rd.pre = <<ReadHist[2].s>>
    /\ rd.exc = "UnknownValue"

\* s and t hold the same tags the same number of times
IsPerm(s, t) ==
    /\ Len(s) = Len(t)
    /\ \A x \in {s[j] : j \in 1..Len(s)} \cup {t[j] : j \in 1..Len(t)} :
        Cardinality({j \in 1..Len(s) : s[j] = x}) = Cardinality({j \in 1..Len(t) : t[j] = x})

\* C9: the order of the tags does not matter. Every sample saved with a permutation
\* of a context's tags is in that context, no two contexts of a metric with one
\* device name have tags that are permutations of each other, and a read that passes
\* its tags as a list in any order addresses that context.
C9_TagOrder ==
    /\ \A m \in DOMAIN hist : \A k \in DOMAIN hist[m] :
        /\ \A j \in 1..Len(hist[m][k]) :
            LET t == hist[m][k][j].tagsIn
            IN IF t.kind = "none" THEN k.tags.none
               ELSE ~k.tags.none /\ IsPerm(t.seq, k.tags.seq)
        /\ \A k2 \in DOMAIN hist[m] :
            (k2.dev = k.dev /\ ~k.tags.none /\ ~k2.tags.none
                /\ IsPerm(k.tags.seq, k2.tags.seq)) => k2 = k
    /\ (rd.op # "none" /\ rd.tags.kind = "list" /\ is_metric(sample_store, rd.metric))
        => \A k \in DOMAIN sample_store[rd.metric] :
            (k.dev = rd.key.dev /\ ~k.tags.none /\ IsPerm(k.tags.seq, rd.tags.seq))
                => /\ rd.key = k
                   /\ rd.exc # "KeyError"
                   /\ rd.pre = IF rd.exc = "" /\ rd.counter /\ rd.expire
                               THEN rd.pre ELSE sample_store[rd.metric][k]

\* C9 witness: one context has received samples saved with ["a", "b"] and with
\* ("b", "a"), and a read with the list ["b", "a"] has returned a sample of it
C9_Witness ==
    /\ rd.op # "none"
    /\ rd.tags = ListTags(<<"b", "a">>)
    /\ rd.exc = ""
    /\ \E i, j \in 1..Len(ReadHist) :
        /\ ReadHist[i].tagsIn.seq = <<"a", "b">>
        /\ ReadHist[j].tagsIn.seq = <<"b", "a">>
    /\ rd.res = ReadHist[Len(ReadHist)].s

\* the buffer a getter drains, as it is now
BufferOf(op) ==
    IF op = "get_events" THEN events
    ELSE IF op = "get_service_checks" THEN service_checks
    ELSE svc_metadata

\* C10: get_events, get_service_checks and get_service_metadata each return
\* everything submitted since their previous call, in submission order, and leave
\* their buffer empty, so that a call that follows directly returns an empty list and
\* no record is returned twice.
C10_GettersDrain ==
    got.op # "none" =>
        /\ got.out = got.expected
        /\ BufferOf(got.op) = <<>>

\* The service check and service metadata getters do drain: each returns what was
\* submitted since its previous call, in order, and leaves its buffer empty.
ServiceGettersDrain ==
    got.op \in {"get_service_checks", "get_service_metadata"} =>
        /\ got.out = got.expected
        /\ BufferOf(got.op) = <<>>

\* get_service_checks has returned two service checks in the order of submission
ServiceGettersDrainReached ==
    /\ got.op = "get_service_checks"
    /\ Len(got.out) = 2
    /\ got.out[1] # got.out[2]
    /\ got.out = got.expected

\* get_events returns nothing, whatever was submitted
EventsNeverReturned == got.op = "get_events" => got.out = <<>> /\ events = <<>>

\* C11: for an instance whose check() returned, the recorded status is OK exactly
\* when no warning was pending at the return and WARNING otherwise; a WARNING status
\* carries every pending warning in the order of emission (those emitted by this
\* check() last), and the warning buffer is empty afterwards.
C11_OkOrWarning ==
    \A k \in 1..Len(iters) :
        LET it == iters[k]
        IN (it.invoked /\ ~it.raised) =>
            /\ it.nStatuses = it.nBefore + 1
            /\ it.nStatuses <= Len(instance_statuses)
            /\ LET st == instance_statuses[it.nStatuses]
               IN /\ st.instance_id = it.i
                  /\ st.status = "OK" <=> it.pendingWarnings = <<>>
                  /\ st.status # "OK" =>
                        /\ st.status = "WARNING"
                        /\ st.warnings = it.pendingWarnings
                        /\ Len(it.pendingWarnings) >= Len(it.emitted)
                        /\ SubSeq(st.warnings,
                                  Len(st.warnings) - Len(it.emitted) + 1,
                                  Len(st.warnings)) = it.emitted
            /\ it.warningsAfter = <<>>

\* C11 witness: in one run an instance returned with two warnings emitted and has a
\* WARNING status carrying them, and another instance returned with none and is OK
C11_Witness ==
    \E j, k \in 1..Len(iters) :
        /\ iters[j].invoked /\ ~iters[j].raised /\ Len(iters[j].emitted) = 2
        /\ instance_statuses[iters[j].nStatuses].status = "WARNING"
        /\ instance_statuses[iters[j].nStatuses].warnings = iters[j].emitted
        /\ iters[k].invoked /\ ~iters[k].raised
        /\ instance_statuses[iters[k].nStatuses].status = "OK"

\* C12: after every iteration of the loop of run(), whether the instance ended OK,
\* WARNING, ERROR or was skipped, the warning buffer and the instance metadata buffer
\* are empty; so from the second iteration on the warnings pending at the end of
\* check() and the metadata rolled up are those of this very instance.
C12_CleanSlate ==
    /\ \A k \in 1..Len(iters) :
        /\ iters[k].warningsAfter = <<>>
        /\ iters[k].metaAfter = <<>>
        /\ k > 1 => /\ iters[k].pendingWarnings = iters[k].emitted
                    /\ iters[k].rolled = Dict(iters[k].metaEmitted)
    /\ (pc = "loop" /\ Len(iters) > 0) => warnings = <<>> /\ instance_metadata = <<>>

\* C12 witness: the first instance raised after emitting a warning, and the second
\* instance then returned clean with an OK status and an empty metadata record
C12_Witness ==
    /\ Len(iters) = 2
    /\ iters[1].raised /\ iters[1].emitted # <<>>
    /\ iters[2].invoked /\ ~iters[2].raised /\ iters[2].emitted = <<>>
    /\ instance_statuses[iters[2].nStatuses].status = "OK"
    /\ iters[2].rolled = EmptyDict

\* the elements of a sequence
Range(q) == {q[j] : j \in 1..Len(q)}

\* C13: no exception raised by run(), get_metrics(), get_events() or
\* get_service_metadata() of a configured check ends the cycle: Collector.run() never
\* fails, and a cycle that returns its payload without stop() being called has
\* started every check, holds one status per check in list order, and has called
\* every emitter.
C13_CycleSurvivesChecks ==
    /\ cpc # "aborted"
    /\ (outcome = "payload" /\ stopPoint = NoStop) =>
        /\ SubSeq(started, 1, Len(initialized_checks_d)) = initialized_checks_d
        /\ Len(check_statuses) >= Len(initialized_checks_d)
        /\ \A j \in 1..Len(initialized_checks_d) :
            check_statuses[j].name = initialized_checks_d[j]
        /\ invoked = emitters

\* Collector.run() fails only where no check of the cycle has yet got through its
\* try block; once one has, a check that raises gets a status (which carries the
\* service metadata of the last check that got through) and the cycle goes on.
AbortsOnlyBeforeFirstMetadata ==
    /\ cpc = "aborted" => /\ current_check_metadata = Unbound
                          /\ check_statuses = <<>>
    /\ \A j \in 1..Len(check_statuses) :
        check_statuses[j].raised /\ check_statuses[j].name \in Range(initialized_checks_d)
            => /\ check_statuses[j].service_metadata # check_statuses[j].name
               /\ \E l \in 1..(j - 1) :
                    check_statuses[l].name = check_statuses[j].service_metadata

\* a cycle has returned its payload although its second check raised
AbortsOnlyBeforeFirstMetadataReached ==
    /\ outcome = "payload"
    /\ Len(check_statuses) >= 2
    /\ ~check_statuses[1].raised
    /\ check_statuses[2].raised
    /\ invoked = emitters

\* stop() was called during the cycle, before or in the loop over the checks
StoppedInChecks == stopPoint.at \in {"before", "checks", "check"}

\* C14: once stop() has cleared continue_running before or during the loop over the
\* checks, no further run() is started in the cycle, neither of a check later in
\* the list nor of the agent metrics check, and no emitter is called.
C14_StopStartsNothing ==
    StoppedInChecks =>
        /\ Len(started) = stopPoint.nStarted
        /\ invoked = <<>>

\* After such a stop() no check of the list is started and no emitter is called; the
\* only run() that can still be started is that of the agent metrics check.
StopStartsNoListedCheck ==
    StoppedInChecks =>
        /\ \A j \in (stopPoint.nStarted + 1)..Len(started) : started[j] = AgentMetricsCheck
        /\ invoked = <<>>

\* stop() was called while the first check was running and the cycle has returned
\* with that one check started
StopStartsNoListedCheckReached ==
    /\ stopPoint.at = "check"
    /\ stopPoint.nStarted = 1
    /\ cpc = "returned"
    /\ started = <<initialized_checks_d[1]>>

\* C15: when stop() is called while an emitter is executing, no emitter after it is
\* called for the payload.
C15_StopBetweenEmitters ==
    stopPoint.at = "emitter" => Len(invoked) = stopPoint.nInvoked

\* C17: a declaration gives the metric its kind and clears its history, whatever
\* kind the name had before: a metric last declared a gauge is a gauge (is_gauge
\* true, is_counter false), a metric last declared a counter is a counter, and the
\* contexts it holds are those written since that declaration.
C17_RedeclareChangesKind ==
    \A m \in DOMAIN declared :
        /\ is_metric(sample_store, m)
        /\ declared[m] = "gauge" =>
            is_gauge(sample_store, counters, m) /\ ~is_counter(counters, m)
        /\ declared[m] = "counter" =>
            is_counter(counters, m) /\ ~is_gauge(sample_store, counters, m)
        /\ DOMAIN sample_store[m] = DOMAIN hist[m]

\* A declaration always clears the history, counter(name) always makes the metric a
\* counter, and gauge(name) makes a gauge of a name that never was a counter.
RedeclareClearsHistory ==
    \A m \in DOMAIN declared :
        /\ is_metric(sample_store, m)
        /\ declared[m] = "counter" =>
            is_counter(counters, m) /\ ~is_gauge(sample_store, counters, m)
        /\ (declared[m] = "gauge" /\ m \notin counters) => is_gauge(sample_store, counters, m)
        /\ DOMAIN sample_store[m] = DOMAIN hist[m]

\* C18: save_sample on a metric that was never declared fails with CheckException
\* ("Saving a sample for an undefined metric") and stores nothing: the declared
\* metrics, the counters and every stored context are as before.
C18_UndeclaredStep ==
    (sv'.op = "save_sample" /\ ~is_metric(sample_store, sv'.metric)) =>
        /\ sv'.exc = "CheckException"
        /\ sample_store' = sample_store
        /\ counters' = counters
C18_UndeclaredSave == [][C18_UndeclaredStep]_vars

\* C18 witness: a save_sample on an undeclared metric has failed while another metric
\* holds a context
C18_Witness ==
    /\ sv.op = "save_sample"
    /\ ~is_metric(sample_store, sv.metric)
    /\ sv.exc = "CheckException"
    /\ \E m \in DOMAIN sample_store : DOMAIN sample_store[m] # {}

\* the context of the last read has never received a sample
NeverWritten ==
    \/ ~is_metric(sample_store, rd.metric)
    \/ rd.key \notin DOMAIN sample_store[rd.metric]

\* C20: get_sample_with_timestamp on a context that has never received a sample
\* fails with UnknownValue, whether the metric was never declared or is declared
\* and that context was never written.
C20_NeverWrittenUnknownValue ==
    (rd.op # "none" /\ NeverWritten) => rd.exc = "UnknownValue"

\* Reading a metric that was never declared fails with UnknownValue.
UndeclaredReadUnknownValue ==
    (rd.op # "none" /\ ~is_metric(sample_store, rd.metric)) => rd.exc = "UnknownValue"

\* a metric that was never declared has been read while another one is declared
UndeclaredReadReached ==
    /\ rd.op # "none"
    /\ ~is_metric(sample_store, rd.metric)
    /\ sample_store # EmptyDict
    /\ rd.exc = "UnknownValue"

\* the stored contexts, as (metric, key) pairs
Contexts(store) == UNION {{<<m, k>> : k \in DOMAIN store[m]} : m \in DOMAIN store}

\* the read of one stored context on its own
ReadOf(store, cnts, c, expire) == get_sample_with_timestamp(store, cnts, c[1], c[2], expire)

\* out holds exactly one tuple for every context of S, and nothing else
OneTupleEach(store, cnts, S, expire, out) ==
    /\ Len(out) = Cardinality(S)
    /\ \A c \in S : \E j \in 1..Len(out) :
          out[j] = MetricTuple(c[1], c[2], ReadOf(store, cnts, c, expire))

ReadableContexts(store, cnts, expire) ==
    {c \in Contexts(store) : ReadOf(store, cnts, c, expire).exc = ""}

\* C19: get_metrics returns exactly one tuple for every stored context whose own read
\* succeeds and none for a context whose read fails; a failing context never
\* suppresses the tuple of another context (stated on the store as it is when
\* get_metrics is called).
C19_Step ==
    metricsOut'.called =>
        OneTupleEach(sample_store, counters,
                     ReadableContexts(sample_store, counters, metricsOut'.expire),
                     metricsOut'.expire, metricsOut'.out)
C19_OneTuplePerReadableContext == [][C19_Step]_vars

\* the contexts whose own read fails with something other than UnknownValue
BrokenContexts(store, cnts) ==
    {c \in Contexts(store) :
        ReadOf(store, cnts, c, FALSE).exc \notin {"", "UnknownValue"}}

\* When the only failures are UnknownValue, get_metrics returns one tuple for every
\* readable context and none for the others.
UnknownValueSkipsOnlyItselfStep ==
    (metricsOut'.called /\ BrokenContexts(sample_store, counters) = {}) =>
        OneTupleEach(sample_store, counters,
                     ReadableContexts(sample_store, counters, metricsOut'.expire),
                     metricsOut'.expire, metricsOut'.out)
UnknownValueSkipsOnlyItself == [][UnknownValueSkipsOnlyItselfStep]_vars

\* get_metrics has returned the tuples of two contexts of one metric while a third
\* context, of the same metric, could not be read yet
UnknownValueSkipsOnlyItselfReached ==
    /\ metricsOut.called
    /\ ~metricsOut.expire
    /\ Len(metricsOut.out) >= 2
    /\ BrokenContexts(sample_store, counters) = {}
    /\ \E c \in Contexts(sample_store) :
          /\ ReadOf(sample_store, counters, c, FALSE).exc = "UnknownValue"
          /\ \E d \in ReadableContexts(sample_store, counters, FALSE) : d[1] = c[1]

\* the store after the save_sample calls of `calls`, in order
RECURSIVE ApplySaves(_, _, _)
ApplySaves(store, cnts, calls) ==
    IF calls = <<>> THEN store
    ELSE LET c == Head(calls)
         IN ApplySaves(save_sample(store, cnts, c[1], c[2], c[3], c[4], c[5], c[6], c[7]).store,
                       cnts, Tail(calls))

\* what get_metrics returned and the store it left are what the calls produce when
\* get_metrics runs as a whole after the first j saves made during it
SerialAt(j) ==
    LET before == ApplySaves(scan.pre, counters, SubSeq(scan.saves, 1, j))
    IN \E r \in ScanMetrics(before, counters, DOMAIN before, scan.expire, <<>>) :
          /\ r.out = scan.out
          /\ ApplySaves(r.store, counters, SubSeq(scan.saves, j + 1, Len(scan.saves)))
               = sample_store

\* C16: the operations on a Check's sample store exclude each other: when a thread
\* saves samples while another runs get_metrics, what get_metrics returns and the
\* store afterwards are what some sequential order of the whole calls produces, so
\* no context is skipped and no sample is lost.
C16_Serializable ==
    scan.done => \E j \in 0..Len(scan.saves) : SerialAt(j)

\* the contexts the metrics held when get_metrics was called
ContextsAtBegin == Contexts(scan.pre)

\* A get_metrics call during which at most one sample is saved, to a context that
\* existed when the call began, gives a result some sequential order gives.
RaceFreeSerializable ==
    (/\ scan.done
     /\ Len(scan.saves) <= 1
     /\ \A i \in 1..Len(scan.saves) :
           <<scan.saves[i][1], SaveKey(scan.saves[i][5], scan.saves[i][7])>> \in ContextsAtBegin)
        => \E j \in 0..Len(scan.saves) : SerialAt(j)

\* get_metrics has returned two tuples and a sample was saved during the call to one
\* of the two contexts
RaceFreeSerializableReached ==
    /\ scan.done
    /\ Len(scan.saves) = 1
    /\ <<scan.saves[1][1], SaveKey(scan.saves[1][5], scan.saves[1][7])>> \in ContextsAtBegin
    /\ Len(scan.out) = 2

\* the set of tags of a context key
TagSet(key) == {key.tags.seq[i] : i \in 1..Len(key.tags.seq)}

\* C21: context identity ignores duplicate tags: two contexts of one metric whose keys
\* hold the same set of tags (and the same device) are one context.
C21_DuplicateTagsOneContext ==
    \A m \in DOMAIN sample_store : \A k1, k2 \in DOMAIN sample_store[m] :
        (/\ k1.tags.none = k2.tags.none
         /\ TagSet(k1) = TagSet(k2)
         /\ k1.dev = k2.dev) => k1 = k2

\* Two contexts of one metric whose keys hold the same tags the same number of times
\* are one context, and every key is sorted.
SameTagCountsOneContext ==
    \A m \in DOMAIN sample_store : \A k1, k2 \in DOMAIN sample_store[m] :
        /\ k1.tags.seq = sorted(k1.tags.seq)
        /\ (/\ k1.tags.none = k2.tags.none
            /\ IsPerm(k1.tags.seq, k2.tags.seq)
            /\ k1.dev = k2.dev) => k1 = k2

\* a metric holds the contexts (a, b) and (a, a, b)
SameTagCountsOneContextReached ==
    \E m \in DOMAIN sample_store : \E k1, k2 \in DOMAIN sample_store[m] :
        /\ k1.tags.seq = <<"a", "b">>
        /\ k2.tags.seq = <<"a", "a", "b">>

\* C22: every warning check() emitted for an instance is among the warnings of that
\* instance's status record, whether check() returned or raised after warning.
C22_WarningsInStatus ==
    \A k \in 1..Len(iters) :
        LET it == iters[k]
        IN it.invoked =>
            /\ it.nStatuses = it.nBefore + 1
            /\ it.nStatuses <= Len(instance_statuses)
            /\ LET st == instance_statuses[it.nStatuses]
               IN /\ st.instance_id = it.i
                  /\ \A j \in 1..Len(it.emitted) :
                        \E n \in 1..Len(st.warnings) : st.warnings[n] = it.emitted[j]

\* s is sorted and holds no tag twice
StrictlySorted(s) == \A i, j \in 1..Len(s) : i < j => TagRank(s[i]) < TagRank(s[j])

\* C23: each service_check call appends exactly one record to self.service_checks,
\* after those already there; the record's tags are the submitted tags sorted and
\* without duplicates (no tags when none were given), and its host_name is the given
\* hostname, or the check's own hostname when none was given.
C23_Step ==
    (pending'.call # pending.call) =>
        LET a == pending'.call
            n == Len(service_checks)
        IN /\ Len(service_checks') = n + 1
           /\ SubSeq(service_checks', 1, n) = service_checks
           /\ LET sc == service_checks'[n + 1]
              IN /\ sc.check = a.check_name
                 /\ sc.status = a.status
                 /\ sc.host_name = IF a.hostname = None THEN AgentHostname ELSE a.hostname
                 /\ a.tags.kind = "none" => sc.tags = a.tags
                 /\ a.tags.kind # "none" =>
                       /\ StrictlySorted(sc.tags.seq)
                       /\ {sc.tags.seq[i] : i \in 1..Len(sc.tags.seq)}
                            = {a.tags.seq[i] : i \in 1..Len(a.tags.seq)}
C23_ServiceCheckAppends == [][C23_Step]_vars

\* C23 witness: a service_check call with tags (b, a, b) and a hostname has appended a
\* record with tags (a, b) and that host_name behind a record of a call without
\* hostname, which carries the check's own
C23_Witness ==
    /\ Len(service_checks) = 2
    /\ pending.call.n > 0
    /\ pending.call.tags.seq = <<"b", "a", "b">>
    /\ service_checks[2].tags.seq = <<"a", "b">>
    /\ service_checks[2].host_name = pending.call.hostname
    /\ pending.call.hostname # None
    /\ service_checks[1].host_name = AgentHostname

\* C24: an event submitted with event(e) is saved: from the call until the next
\* get_events(), has_events() is true, and that get_events() returns a list that
\* holds e.
C24_EventSaved ==
    /\ pending.ev # <<>> => has_events(events)
    /\ got.op = "get_events" =>
          \A j \in 1..Len(got.expected) :
              \E n \in 1..Len(got.out) : got.out[n] = got.expected[j]

\* the number of checks of the generic loop whose iteration is over in this cycle
LoopDone ==
    LET n == IF Len(started) <= Len(initialized_checks_d) THEN Len(started)
             ELSE Len(initialized_checks_d)
    IN IF cpc = "check" THEN n - 1 ELSE n

\* the positions of the payload's service checks that are the derived check of c
DerivedOf(c) ==
    {n \in 1..Len(payload_service_checks) :
        /\ payload_service_checks[n].check = "serverdensity.agent.check_status"
        /\ payload_service_checks[n].tags = c}

\* the positions of the service checks c submitted itself
OwnOf(c) ==
    {n \in 1..Len(payload_service_checks) :
        /\ payload_service_checks[n].check = "own"
        /\ payload_service_checks[n].tags = c}

\* the j-th check of the loop has its status record and exactly one derived service
\* check, OK for a status OK and CRITICAL for ERROR, which its service_check_count
\* leaves out
DerivedServiceCheckOf(j) ==
    LET c == started[j]
    IN /\ Cardinality(DerivedOf(c)) = 1
       /\ j <= Len(check_statuses)
       /\ check_statuses[j].name = c
       /\ \A n \in DerivedOf(c) :
            /\ check_statuses[j].status = "OK" => payload_service_checks[n].status = "OK"
            /\ check_statuses[j].status = "ERROR" =>
                  payload_service_checks[n].status = "CRITICAL"
       /\ check_statuses[j].service_check_count = Cardinality(OwnOf(c))

\* C25: for every check the loop of a collection cycle has run, the payload holds
\* exactly one serverdensity.agent.check_status service check tagged with the check,
\* OK when the check's status of this cycle is OK and CRITICAL when it is ERROR, and
\* the check's service_check_count does not count it.
C25_DerivedServiceCheck == \A j \in 1..LoopDone : DerivedServiceCheckOf(j)

\* In a cycle that Collector.run() does not leave with an error, every check the loop
\* has run has its one derived service check.
DerivedServiceCheckUnlessAborted ==
    cpc # "aborted" => \A j \in 1..LoopDone : DerivedServiceCheckOf(j)

\* a cycle has returned a payload with an OK and a CRITICAL derived service check
DerivedServiceCheckUnlessAbortedReached ==
    /\ outcome = "payload"
    /\ Len(check_statuses) >= 2
    /\ check_statuses[1].status = "OK"
    /\ check_statuses[2].status = "ERROR"
    /\ check_statuses[2].service_check_count = 1
    /\ \A n \in DerivedOf(started[2]) : payload_service_checks[n].status = "CRITICAL"

\* C26: in every cycle the agent metrics check, when there is one, is not run in the
\* loop over the checks and is run exactly once, after every other check - in any
\* cycle, whether the caller passes the same list again or a freshly built one: a
\* run() of it is the last run() started in the cycle and comes after the loop,
\* and a cycle that returns its payload has run it.
C26_AgentMetricsOnceLast ==
    /\ \A j \in 1..Len(started) :
          started[j] = AgentMetricsCheck =>
              j = Len(started) /\ j > Len(initialized_checks_d)
    /\ (outcome = "payload" /\ agent_metrics) => AgentMetricsCheck \in Range(started)

\* While the list of the cycle does not hold the agent metrics check, that check is
\* run once, last.
AgentMetricsLastUnlessListed ==
    AgentMetricsCheck \notin Range(initialized_checks_d) => C26_AgentMetricsOnceLast

\* a second cycle has returned its payload after running the agent metrics check
\* behind the checks of the list
AgentMetricsLastUnlessListedReached ==
    /\ nCycles = 2
    /\ outcome = "payload"
    /\ agent_metrics
    /\ started = initialized_checks_d \o <<AgentMetricsCheck>>

\* the statuses of the cycle that are about check c
StatusesOf(c) == {j \in 1..Len(check_statuses) : check_statuses[j].name = c}

\* no check that failed to load is run, only such checks have a status that carries
\* an initialization error, and once the cycle is past `stages` each has exactly one
InitFailedReported(stages) ==
    /\ \A c \in init_failed_checks_d : c \notin Range(started)
    /\ \A j \in 1..Len(check_statuses) :
          check_statuses[j].init_failed_error # None =>
              check_statuses[j].name \in init_failed_checks_d
    /\ (cpc \in stages /\ ~StoppedInChecks) =>
          \A c \in init_failed_checks_d :
              /\ Cardinality(StatusesOf(c)) = 1
              /\ \A j \in StatusesOf(c) : check_statuses[j].init_failed_error # None

\* the stages of a cycle after the loops over the checks
AfterChecks == {"agent", "agentRun", "emit", "emitters", "emitter", "finish"}

\* C27: a check that failed to load never has run() called by the collector and, in
\* every cycle that stop() does not cut short, contributes exactly one CheckStatus,
\* which carries its initialization error; the statuses of the checks that were run
\* carry none.
C27_InitFailedStatus == InitFailedReported(AfterChecks \cup {"aborted"})

\* In every cycle that gets past its loop over the checks, a check that failed to
\* load was not run and has its one status with the initialization error.
InitFailedStatusAfterLoop == InitFailedReported(AfterChecks)

\* a cycle has returned its payload with the status of a check that failed to load
\* next to an ERROR status of a check that was run
InitFailedStatusAfterLoopReached ==
    /\ outcome = "payload"
    /\ init_failed_checks_d # {}
    /\ \E j, k \in 1..Len(check_statuses) :
          /\ check_statuses[j].name \in init_failed_checks_d
          /\ check_statuses[j].init_failed_error # None
          /\ check_statuses[k].status = "ERROR"
          /\ check_statuses[k].init_failed_error = None

\* C28: after any sequence of item assignments and deletions, a key the payload
\* holds is in the metadata payload iff it is a metadata key or a duplicate key, and
\* in the data payload iff it is not a metadata key; a key it does not hold is in
\* neither; payload[k] is the last value assigned to k; and the merged payload is
\* the union of the two, which is the keys held with their last values.
C28_PayloadPartition ==
    /\ \A k \in PayloadKeys :
          /\ k \in DOMAIN payload.meta_payload <=>
                (k \in DOMAIN payload.assigned /\ k \in METADATA_KEYS \cup DUPLICATE_KEYS)
          /\ k \in DOMAIN payload.data_payload <=>
                (k \in DOMAIN payload.assigned /\ k \notin METADATA_KEYS)
          /\ k \in DOMAIN payload.assigned => getitem(payload, k) = payload.assigned[k]
    /\ DOMAIN MergedPayload(payload)
         = DOMAIN payload.data_payload \cup DOMAIN payload.meta_payload
    /\ MergedPayload(payload) = payload.assigned

\* C28 witness: after an assignment and a deletion of the data key, the payload holds
\* a metadata key and the duplicate key, the latter overwritten with a second value
C28_Witness ==
    /\ nOps = MaxPayloadOps
    /\ DOMAIN payload.assigned = {"meta", "agentKey"}
    /\ DOMAIN payload.meta_payload = {"meta", "agentKey"}
    /\ DOMAIN payload.data_payload = {"agentKey"}
    /\ payload.meta_payload["agentKey"] = "v2"

\* the tags of a list that start with none of the excluded prefixes
RECURSIVE WithoutExcluded(_, _)
WithoutExcluded(tags, excluding_tags) ==
    IF tags = <<>> THEN <<>>
    ELSE IF \E i \in 1..Len(excluding_tags) : StartsWith(Head(tags), excluding_tags[i])
    THEN WithoutExcluded(Tail(tags), excluding_tags)
    ELSE <<Head(tags)>> \o WithoutExcluded(Tail(tags), excluding_tags)

\* a historate call with a tag list follows a call that returned normally, for the
\* same metric, hostname, device and excluded prefixes
HistorateFollows ==
    /\ hcall'.n # hcall.n
    /\ hcall.n > 0
    /\ hcall.exc = ""
    /\ hcall'.tags.kind # "none"
    /\ hcall'.metric = hcall.metric
    /\ hcall'.hostname = hcall.hostname
    /\ hcall'.device_name = hcall.device_name
    /\ hcall'.excluding_tags = hcall.excluding_tags

\* the call finds the (value, timestamp) of the call before it under its context,
\* and at a later clock reading computes its rate against it
SharesContext ==
    /\ hcall'.had
    /\ hcall'.prev_value = hcall.value
    /\ hcall'.prev_ts = hcall.now
    /\ hcall'.now # hcall.now =>
          /\ hcall'.emitted
          /\ hcall'.rate = PyDiv(Float_(hcall'.value - hcall.value),
                                 Float_(hcall'.now - hcall.now))

C29_Step ==
    (/\ HistorateFollows
     /\ sorted(WithoutExcluded(hcall'.tags.seq, hcall'.excluding_tags))
          = sorted(WithoutExcluded(hcall.tags.seq, hcall.excluding_tags)))
    => SharesContext

WholeTagsStep ==
    HistorateFollows =>
       /\ sorted(hcall'.tags.seq) = sorted(hcall.tags.seq) =>
             /\ SharesContext
             /\ hcall'.emitted =>
                   hcall'.histogram_tags
                     = WithoutExcluded(hcall'.tags.seq, hcall'.excluding_tags)
       /\ (sorted(hcall'.tags.seq) # sorted(hcall.tags.seq) /\ hcall.n = 1) =>
             ~hcall'.had /\ ~hcall'.emitted

C30_Step ==
    (hcall'.n # hcall.n /\ hcall'.tags.kind # "none")
    => LET context == HistorateContext(hcall'.metric, hcall'.tags.seq, hcall'.hostname,
                                       hcall'.device_name)
       IN /\ context \in DOMAIN historate_dict'
          /\ historate_dict'[context] = [value |-> hcall'.value, ts |-> hcall'.now]

\* C30: every historate call with a tag list leaves (value, now) stored under its
\* context key, whether or not it emitted a rate and whatever the stored timestamp was.
C30_AlwaysRestores == [][C30_Step]_vars

StoresUnlessRaisedStep ==
    (hcall'.n # hcall.n /\ hcall'.exc = "")
    => /\ hcall'.context \in DOMAIN historate_dict'
       /\ historate_dict'[hcall'.context] = [value |-> hcall'.value, ts |-> hcall'.now]
       /\ \A c \in DOMAIN historate_dict \ {hcall'.context} :
             c \in DOMAIN historate_dict' /\ historate_dict'[c] = historate_dict[c]

\* What the code does keep: a historate call that returns normally leaves (value, now)
\* stored under its context and every other context as it was.
StoresUnlessRaised == [][StoresUnlessRaisedStep]_vars

StoresUnlessRaisedReached ==
    /\ hcall.emitted
    /\ hcall.device_name = "d"
    /\ historate_dict[hcall.context] = [value |-> hcall.value, ts |-> hcall.now]

\* the context of a call without tags: the metric, then the hostname and the device
\* when given
UntaggedContext(call) ==
    <<call.metric>>
        \o (IF call.hostname # None THEN <<"host:" \o call.hostname>> ELSE <<>>)
        \o (IF call.device_name # None THEN <<"device:" \o call.device_name>> ELSE <<>>)

C31_Step ==
    (hcall'.n # hcall.n /\ hcall'.tags.kind = "none")
    => /\ hcall'.exc = ""
       /\ UntaggedContext(hcall') \in DOMAIN historate_dict'
       /\ historate_dict'[UntaggedContext(hcall')]
            = [value |-> hcall'.value, ts |-> hcall'.now]
       /\ hcall'.emitted => hcall'.histogram_tags = <<>>

\* C31: a historate call with tags omitted completes without error and leaves
\* (value, now) stored under the untagged context; a rate it emits carries no tags.
C31_TagsOmitted == [][C31_Step]_vars

TagsOmittedRaisesStep ==
    (hcall'.n # hcall.n /\ hcall'.tags.kind = "none")
    => /\ hcall'.exc = "TypeError"
       /\ historate_dict' = historate_dict
       /\ ~hcall'.emitted

\* What the code does: a historate call with tags omitted raises TypeError and
\* leaves historate_dict as it was.
TagsOmittedRaises == [][TagsOmittedRaisesStep]_vars

TagsOmittedRaisesReached ==
    /\ hcall.n = MaxHistorate
    /\ hcall.tags.kind = "none"
    /\ hcall.exc = "TypeError"
    /\ historate_dict = EmptyDict

\* the sum over the consecutive pairs of raws of next - previous where next >= previous
RECURSIVE PairSum(_)
PairSum(raws) ==
    IF Len(raws) < 2 THEN 0
    ELSE (IF raws[2] >= raws[1] THEN raws[2] - raws[1] ELSE 0) + PairSum(Tail(raws))

PointsOf(metric) ==
    {flushOut.points[i].value : i \in {j \in 1..Len(flushOut.points) :
                                          flushOut.points[j].metric = metric}}

\* C32: the monotonic count a flush reports is the sum, over the consecutive pairs of
\* the raw values submitted up to that flush (starting from the last raw value of
\* the cycle before, if any), of next - previous where next >= previous and of 0
\* where next < previous; it is never negative.
C32_MonotonicCountResets ==
    flushOut.n > 0 =>
        \A v \in PointsOf("monotonic_count") : v = PairSum(flushOut.flushed_raws) /\ v >= 0

\* C32 witness: a flush after the raw values MaxVal, 0, 1: the reset contributes 0
C32_Witness ==
    /\ flushOut.n = 1
    /\ flushOut.flushed_raws = <<MaxVal, 0, 1>>
    /\ PointsOf("monotonic_count") = {1}

InOpenUnit(v) == 0 < v.num /\ v.num < v.den

\* C34: every value in the list get_histogram_percentiles returns lies strictly
\* between 0 and 1, and an entry that is dropped leaves the other entries in place.
C34_PercentilesInOpenUnit ==
    pct.called =>
       /\ \A i \in 1..Len(pct.result) : InOpenUnit(pct.result[i])
       /\ Len(pct.vals) = 2 =>
             pct.result # <<>> /\ pct.result[Len(pct.result)] = Frac(1, 2, TRUE)

\* What the code does keep: every value returned is at least 0 and below 1, comes
\* from an entry whose whole value lies strictly between 0 and 1, and the valid entry
\* after a dropped one is returned.
PercentilesBelowOne ==
    pct.called =>
       /\ \A i \in 1..Len(pct.result) :
             0 <= pct.result[i].num /\ pct.result[i].num < pct.result[i].den
       /\ pct.result # <<>> =>
             InOpenUnit(PyFloat(Strip(pct.vals[1])).val) \/ Len(pct.result) < Len(pct.vals)
       /\ Len(pct.vals) = 2 =>
             pct.result # <<>> /\ pct.result[Len(pct.result)] = Frac(1, 2, TRUE)

PercentilesBelowOneReached ==
    /\ pct.called
    /\ pct.vals = << <<"x">>, <<"0", ".", "5">> >>
    /\ pct.result = <<Frac(1, 2, TRUE)>>

\* the step is one iteration of the loop of run()
IterationStep == Len(iters') = Len(iters) + 1

C35_Step ==
    /\ clock' >= clock
    /\ IF IterationStep
       THEN LET it == iters'[Len(iters')]
            IN /\ (it.invoked /\ invoked_at[it.i] # Never) =>
                     it.now - invoked_at[it.i] >= IntervalOf(it.i)
               /\ \A j \in DOMAIN last_collection_time :
                     j # it.i => last_collection_time'[j] = last_collection_time[j]
       ELSE last_collection_time' = last_collection_time

\* C35: the clock never goes back, and then any two successive calls of check() on an
\* instance, in the same or in different run() calls, are at least the instance's
\* minimum collection interval apart, whether the earlier call returned or raised;
\* an iteration on instance i leaves the throttle timer of every other instance alone,
\* and nothing but an iteration changes a timer.
C35_ThrottleSpacing == [][C35_Step]_vars

\* C35 witness: in the last run() check() is called on an instance with an interval
\* of its own exactly one interval after the call of check() on it before
C35_Witness ==
    /\ nRuns = MaxRuns
    /\ \E k \in 1..Len(iters) :
          /\ iters[k].invoked
          /\ instances[iters[k].i + 1].has_mci
          /\ iters[k].last >= MaxInterval
          /\ iters[k].now - iters[k].last = MaxInterval

\* get_service_metadata() was called after run() returned, and returned as many
\* records as the run had iterations: the buffer was empty when the run began and
\* nothing was submitted after it
DrainedAfterRun ==
    /\ pc = "done"
    /\ got.op = "get_service_metadata"
    /\ Len(got.out) = Len(iters)

\* the iteration of the last run that appended the status at position k
IterationOfStatus(k) ==
    CHOOSE j \in 1..Len(iters) : iters[j].invoked /\ iters[j].nStatuses = k

\* C36: get_service_metadata() after run() returns exactly one record per status of
\* that run, the record at position k being the one rolled up for the instance whose
\* status is at position k.
C36_MetadataPerStatus ==
    DrainedAfterRun =>
       /\ Len(got.out) = Len(instance_statuses)
       /\ \A k \in 1..Len(instance_statuses) :
             k <= Len(got.out) /\ got.out[k] = iters[IterationOfStatus(k)].rolled

\* What the code does keep: one record per instance visited, throttled or not, in
\* index order.
MetadataPerIteration ==
    DrainedAfterRun =>
       /\ \A k \in 1..Len(iters) : got.out[k] = iters[k].rolled
       /\ Len(instance_statuses) = Cardinality({k \in 1..Len(iters) : iters[k].invoked})

MetadataPerIterationReached ==
    /\ DrainedAfterRun
    /\ Len(iters) = 2
    /\ ~iters[1].invoked
    /\ iters[2].invoked /\ iters[2].metaEmitted # <<>>
    /\ Len(instance_statuses) = 1

\* the step is a read (get_sample_with_timestamp or get_sample)
ReadStep == rd'.op # "none"

FailedCounterRead(r) == r.counter /\ r.exc \in {"Infinity", "UnknownValue"}

C37_Step ==
    ReadStep =>
       /\ FailedCounterRead(rd') => sample_store' = sample_store
       /\ (rd'.metric \in DOMAIN declared /\ declared[rd'.metric] = "gauge")
            => sample_store' = sample_store

\* C37: a read of a counter context that fails with Infinity or UnknownValue leaves
\* the store as it was, with expire too, and a read of a context of a metric declared
\* a gauge never changes the store.
C37_FailedReadKeepsStore == [][C37_Step]_vars

FailedReadStep ==
    ReadStep =>
       /\ rd'.exc # "" => sample_store' = sample_store
       /\ ~rd'.counter => sample_store' = sample_store
       /\ ~rd'.expire => sample_store' = sample_store

\* What the code does keep: a read that fails, a read without expire and a read of a
\* metric that is not in _counters leave the store as it was.
FailedReadKeepsStore == [][FailedReadStep]_vars

FailedReadKeepsStoreReached ==
    /\ rd.op # "none"
    /\ rd.counter /\ rd.expire
    /\ rd.exc = "Infinity"
    /\ Len(sample_store[rd.metric][rd.key]) = 2

\* C38: whenever a read of a counter context returns a value, the rate returned is
\* not negative, whatever the timestamps of the two retained samples.
C38_RateNonNegative ==
    CounterReadOk(rd) => rd.res.val.num >= 0

\* What the code does keep: the rate returned has the sign of the interval between
\* the two retained samples (or is 0), and it is not negative when the later saved
\* sample carries the later timestamp.
RateSignOfInterval ==
    CounterReadOk(rd) =>
       LET interval == PySub(rd.pre[2].ts, rd.pre[1].ts)
       IN /\ ~IsZero(interval)
          /\ ~IsNeg(PySub(rd.pre[2].val, rd.pre[1].val))
          /\ ~IsNeg(interval) => rd.res.val.num >= 0
          /\ IsNeg(interval) => rd.res.val.num <= 0

RateSignOfIntervalReached ==
    /\ CounterReadOk(rd)
    /\ IsNeg(PySub(rd.pre[2].ts, rd.pre[1].ts))
    /\ rd.res.val.num < 0


\* a step in which _should_send_additional_data was called for data name d
AskedFor(d) == sent'[d].n # sent[d].n

\* whether the interval of d has elapsed at the clock reading of the call
Elapsed(d) == clock - push_times[d].start >= push_times[d].interval

\* C39: per data name, a call of _should_send_additional_data in the first
\* collection run returns true and leaves the timer as it was; in every later run
\* it returns true exactly when the interval of that data name has elapsed since
\* the start of its timer, and then restarts that timer, and only that one, at the
\* current time; the timers of data names that were not asked about are unchanged.
C39_Step ==
    \A d \in DataNames :
        /\ push_times'[d].interval = push_times[d].interval
        /\ ~AskedFor(d) => push_times'[d] = push_times[d]
        /\ AskedFor(d) /\ nCycles' <= 1 =>
              /\ sent'[d].ret
              /\ push_times'[d] = push_times[d]
        /\ AskedFor(d) /\ nCycles' > 1 =>
              /\ sent'[d].ret <=> Elapsed(d)
              /\ push_times'[d].start = IF Elapsed(d) THEN clock ELSE push_times[d].start
C39_PerKindTimer == [][C39_Step]_vars

\* witness of C39: in the second run the processes timer had elapsed and was
\* restarted at the current time, the agent checks timer had not and was kept,
\* and the host metadata timer still holds its start from the construction
C39_Witness ==
    /\ nCycles = 2
    /\ sent["processes"].n = 2 /\ sent["processes"].ret
    /\ push_times["processes"].start = clock
    /\ sent["agent_checks"].n = 2 /\ ~sent["agent_checks"].ret
    /\ push_times["agent_checks"].start = MaxInterval
    /\ push_times["host_metadata"].start = MaxInterval
    /\ clock > MaxInterval


\* the names load_check_directory returned both as initialized and as failed
ReportedTwice ==
    loader.result.initialized_checks \cap Keys(loader.result.init_failed_checks)

\* C40: load_check_directory never reports the same check name both as initialized
\* and as init_failed: the names of the initialized checks it returns and the keys
\* of the init_failed_checks it returns are disjoint.
C40_InitializedDisjointFromFailed ==
    loader.pc = "returned" => ReportedTwice = {}

\* What the code does keep: a name is reported twice only through an old-style key
\* of the agent config: as a deprecated check, or as nagios loaded from its keys of
\* config.cfg next to a nagios config file; without such keys the two are disjoint.
ReportedTwiceOnlyByOldKeys ==
    loader.pc = "returned" =>
       /\ \A n \in ReportedTwice :
             \/ loader.result.init_failed_checks[n] = "deprecated"
             \/ n = "nagios" /\ loader.agentConfig \cap NAGIOS_OLD_CONF_KEYS # {}
       /\ loader.agentConfig = {} => ReportedTwice = {}

ReportedTwiceOnlyByOldKeysReached ==
    /\ loader.pc = "returned"
    /\ loader.agentConfig = {}
    /\ loader.result.initialized_checks = {"apache", "memcached"}
    /\ Keys(loader.result.init_failed_checks) = {"nagios"}

=============================================================================
